---- MODULE Spec2Model ----
(***************************************************************************)
(* Model of the StretchingBuddyNG Lambda handlers:                         *)
(*   infra/lambda/lambda_utils.py      (validators, body parser, wrapper)  *)
(*   infra/lambda/exercises_handler.py (exercise catalog CRUD)             *)
(*   infra/lambda/progress_handler.py  (progress log: POST, GET)           *)
(*   infra/lambda/polly_handler.py     (speech synthesis proxy)            *)
(*                                                                         *)
(* Strings are sequences of one-character strings, so that strip(),        *)
(* lower() and the "in" substring test are computed character by           *)
(* character.  JSON / Python values are tagged records of one shape.       *)
(***************************************************************************)
EXTENDS Integers, Sequences, FiniteSets, TLC

VARIABLES
    \* ---- exercise catalog (exercises_handler.py) ----
    table,      \* exercises_table: key (exercise_id) -> stored item
    pc,         \* per invocation: position inside the handler
    req,        \* per invocation: the event being handled
    item,       \* per invocation: the item built by _build_item
    resp,       \* per invocation: the response returned by the wrapper
    calls,      \* per invocation: the store calls issued by this request
    fault,      \* per invocation: a store call of this request raised
    expect,     \* per invocation: what the last successful POST of the key returned
    created,    \* key -> item returned by the last successful POST, until rewritten
    table0,     \* the keys the table held before the first request
    nreq,       \* number of catalog requests received so far
    \* ---- progress log (progress_handler.py) ----
    ptable,     \* progress_table in scan order
    now,        \* the server clock (minutes, UTC)
    ppc,        \* position inside the progress handler
    preq,       \* the event being handled
    presp,      \* the response
    pcalls,     \* the put and delete calls issued by this request
    plast,      \* the last scan call issued by this request
    plimit,     \* _list_progress_entries: limit
    pitems,     \* _list_progress_entries: items
    pstart,     \* _list_progress_entries: exclusive_start_key (0 = None)
    pclock,     \* the clock reading when the request was handled
    pfault,     \* a store call of this request raised
    pnreq,      \* number of progress requests received so far
    \* ---- speech synthesis (polly_handler.py) ----
    cache,      \* lru_cache of _supported_engines_for_voice, least recently used first
    spc,        \* position inside the speech handler
    sreq,       \* the event being handled
    sresp,      \* the response
    sengine,    \* _synthesize_speech: engine ("" = None)
    scalls,     \* provider calls of this request with their results, in order
    described,  \* voice -> describe_voices calls so far and the last answer
    snreq,      \* number of speech requests received so far
    \* ---- the process (lambda_utils.py) ----
    env,        \* os.environ: the CORS_* variables that are set
    envelope,   \* a response built with caller-supplied headers
    parsed_at   \* a value and the results of _parse_iso_timestamp applied to it in turn

catVars == <<table, pc, req, item, resp, calls, fault, expect, created, table0, nreq>>
progVars == <<ptable, now, ppc, preq, presp, pcalls, plast, plimit, pitems, pstart, pclock,
              pfault, pnreq>>
speechVars == <<cache, spc, sreq, sresp, sengine, scalls, described, snreq>>
envVars == <<env, envelope, parsed_at>>
vars == <<catVars, progVars, speechVars, envVars>>

-----------------------------------------------------------------------------
(* Bounds of the model *)

MaxRequests == 2
MaxProgressRequests == 2
MaxClock == 1
SmallTableSize == 3
MediumTableSize == 260
LargeTableSize == 505
MaxSpeechRequests == 2
EnvelopeRequests == 1

-----------------------------------------------------------------------------
(* Python strings *)

Max(S) == CHOOSE x \in S : \A y \in S : x >= y

UpperAlphabet ==
    <<"A","B","C","D","E","F","G","H","I","J","K","L","M","N","O","P","Q","R","S",
      "T","U","V","W","X","Y","Z","Ü">>
LowerAlphabet ==
    <<"a","b","c","d","e","f","g","h","i","j","k","l","m","n","o","p","q","r","s",
      "t","u","v","w","x","y","z","ü">>

IsSpace(c) == c \in {" ", "\t", "\n"}

\* str.lower(), one character
LowerChar(c) ==
    IF \E i \in 1..Len(UpperAlphabet) : UpperAlphabet[i] = c
    THEN LowerAlphabet[CHOOSE i \in 1..Len(UpperAlphabet) : UpperAlphabet[i] = c]
    ELSE c

\* str.lower()
Lower(s) == [i \in 1..Len(s) |-> LowerChar(s[i])]

\* str.strip(): leading and trailing whitespace removed, inner whitespace kept
Strip(s) ==
    IF \A i \in 1..Len(s) : IsSpace(s[i]) THEN <<>>
    ELSE LET n == Len(s)
             leading == CHOOSE k \in 0..(n - 1) :
                            ~IsSpace(s[k + 1]) /\ \A j \in 1..k : IsSpace(s[j])
             trailing == CHOOSE k \in 0..(n - 1) :
                            ~IsSpace(s[n - k]) /\ \A j \in (n - k + 1)..n : IsSpace(s[j])
         IN  SubSeq(s, leading + 1, n - trailing)

\* needle in haystack (substring test)
Contains(hay, needle) ==
    \E i \in 0..(Len(hay) - Len(needle)) : SubSeq(hay, i + 1, i + Len(needle)) = needle

\* the order of str on the strings of the model (by code point, then length)
RECURSIVE StrLess(_, _)
CharRank(c) ==
    IF IsSpace(c) THEN 0
    ELSE IF \E i \in 1..Len(UpperAlphabet) : UpperAlphabet[i] = c
         THEN CHOOSE i \in 1..Len(UpperAlphabet) : UpperAlphabet[i] = c
         ELSE IF \E i \in 1..Len(LowerAlphabet) : LowerAlphabet[i] = c
              THEN 100 + (CHOOSE i \in 1..Len(LowerAlphabet) : LowerAlphabet[i] = c)
              ELSE 50
StrLess(a, b) ==
    IF b = <<>> THEN FALSE
    ELSE IF a = <<>> THEN TRUE
    ELSE IF Head(a) = Head(b) THEN StrLess(Tail(a), Tail(b))
    ELSE CharRank(Head(a)) < CharRank(Head(b))

-----------------------------------------------------------------------------
(* JSON / Python values: [t: type tag, s: characters, n: number] *)

JNull == [t |-> "null", s |-> <<>>, n |-> 0]
JStr(s) == [t |-> "str", s |-> s, n |-> 0]
JInt(n) == [t |-> "int", s |-> <<>>, n |-> n]
\* a number as boto3 hands it back from DynamoDB
JDec(n) == [t |-> "dec", s |-> <<>>, n |-> n]

\* dict.get(key): None when the key is absent
Get(d, k) == IF k \in DOMAIN d THEN d[k] ELSE JNull

\* Python truthiness of a value
Truthy(v) ==
    CASE v.t = "null" -> FALSE
      [] v.t = "str" -> v.s # <<>>
      [] OTHER -> v.n # 0

\* a dict without one key
Without(d, k) == [f \in DOMAIN d \ {k} |-> d[f]]

\* a dict with one key set
With(d, k, v) == [f \in DOMAIN d \cup {k} |-> IF f = k THEN v ELSE d[f]]

EmptyDict == [f \in {} |-> JNull]

-----------------------------------------------------------------------------
(* lambda_utils.py: HttpError, validators, responses *)

\* a validator's outcome: the value, or the HttpError(400, ...) it raised
Ok(v) == [ok |-> TRUE, v |-> v, err |-> <<"", "">>]
Err(field, text) == [ok |-> FALSE, v |-> JNull, err |-> <<field, text>>]

expect_string(value, field_name) ==
    IF value.t # "str" \/ Strip(value.s) = <<>>
    THEN Err(field_name, "muss eine nicht-leere Zeichenkette sein")
    ELSE Ok(JStr(Strip(value.s)))

expect_positive_int(value, field_name) ==
    IF value.t # "int" THEN Err(field_name, "muss eine Ganzzahl sein")
    ELSE IF value.n <= 0 THEN Err(field_name, "muss größer als 0 sein")
    ELSE Ok(value)

expect_non_negative_int(value, field_name) ==
    IF value.t # "int" THEN Err(field_name, "muss eine Ganzzahl sein")
    ELSE IF value.n < 0 THEN Err(field_name, "darf nicht negativ sein")
    ELSE Ok(value)

\* os.environ.get(name, default)
EnvironGet(name, default) == IF name \in DOMAIN env THEN env[name] ELSE default

\* Header values are sequences of tokens; a list of names is its names and commas.
DefaultAllowMethods == <<"OPTIONS", ",", "POST", ",", "GET", ",", "PUT", ",", "DELETE">>
DefaultAllowHeaders ==
    <<"Content-Type", ",", "Authorization", ",", "X-Amz-Date", ",",
      "X-Amz-Security-Token", ",", "X-Api-Key">>

_cors_headers ==
    [k \in {"Access-Control-Allow-Origin", "Access-Control-Allow-Headers",
            "Access-Control-Allow-Methods"} |->
        CASE k = "Access-Control-Allow-Origin" -> EnvironGet("CORS_ALLOW_ORIGIN", <<"*">>)
          [] k = "Access-Control-Allow-Headers" ->
                EnvironGet("CORS_ALLOW_HEADERS", DefaultAllowHeaders)
          [] OTHER -> EnvironGet("CORS_ALLOW_METHODS", DefaultAllowMethods)]

\* headers=None
NoHeaders == [k \in {} |-> JNull]

\* faulty variant: the caller's headers replace the base headers
_merge_headers_replacing(base, extra) ==
    IF DOMAIN extra = {} THEN base
    ELSE [k \in {h \in DOMAIN extra : extra[h].t # "null"} |-> extra[k].s]

\* dict(base), then update with the caller's headers whose value is not None
_merge_headers(base, extra) ==
    IF DOMAIN extra = {} THEN base
    ELSE LET given == {k \in DOMAIN extra : extra[k].t # "null"}
         IN  [k \in DOMAIN base \cup given |-> IF k \in given THEN extra[k].s ELSE base[k]]

\* dict.setdefault(key, value)
SetDefault(d, k, v) == IF k \in DOMAIN d THEN d ELSE With(d, k, v)

\* json_response(status_code, body, headers)
JsonEnvelope(status_code, body, headers) ==
    [status |-> status_code, body |-> body,
     headers |-> _merge_headers(
                     SetDefault(_cors_headers, "Content-Type", <<"application/json">>),
                     headers)]

\* text_response(status_code, body, headers)
TextEnvelope(status_code, body, headers) ==
    [status |-> status_code, body |-> body,
     headers |-> _merge_headers(
                     SetDefault(_cors_headers, "Content-Type",
                                <<"text/plain", ";", "charset=utf-8">>),
                     headers)]

\* binary_response(status_code, body, headers=headers, mime_type=mime_type)
BinaryEnvelope(status_code, body, headers, mime_type) ==
    [status |-> status_code,
     body |-> [audio |-> body, isBase64Encoded |-> TRUE, mime_type |-> mime_type],
     headers |-> _merge_headers(SetDefault(_cors_headers, "Content-Type", <<mime_type>>),
                                headers)]

\* json_response(status_code, body)
json_response(status_code, body) == JsonEnvelope(status_code, body, NoHeaders)

\* faulty variant: every HttpError is reported as a bad request
AlwaysBadRequest(status_code, message) == json_response(400, [error |-> message])

\* what with_error_handling makes of HttpError(status_code, message)
ErrorResponse(status_code, message) == json_response(status_code, [error |-> message])

\* what with_error_handling makes of any other exception
InternalError == json_response(500, [error |-> <<"", "Interner Serverfehler">>])

\* no response yet
NoResponse == [status |-> 0, body |-> [none |-> TRUE], headers |-> NoHeaders]

\* what a handler raises: HttpError(status_code, message), or an exception of
\* another class (AttributeError, binascii.Error, UnicodeDecodeError, ...)
HttpError(status_code, message) ==
    [kind |-> "HttpError", status_code |-> status_code, message |-> message]
OtherException == [kind |-> "Exception", status_code |-> 0, message |-> <<"", "">>]
NoException == [kind |-> "none", status_code |-> 0, message |-> <<"", "">>]

\* faulty variant: only HttpError is caught, anything else leaves the handler
with_error_handling_http_only(exc) ==
    IF exc.kind = "HttpError" THEN ErrorResponse(exc.status_code, exc.message)
    ELSE NoResponse

\* with_error_handling: the response the wrapper returns when the handler raised exc
with_error_handling(exc) ==
    IF exc.kind = "HttpError" THEN ErrorResponse(exc.status_code, exc.message)
    ELSE InternalError

\* parse_json_body: the event body is absent/empty, flagged isBase64Encoded without
\* being base64 of UTF-8 text (the decoding raises outside the try), malformed JSON,
\* JSON that is no object, or a JSON object
parse_json_body(event) ==
    CASE event.body.kind = "empty" ->
            [ok |-> TRUE, v |-> EmptyDict, err |-> <<"", "">>, exc |-> NoException]
      [] event.body.kind = "undecodable" ->
            [ok |-> FALSE, v |-> EmptyDict, err |-> <<"", "">>, exc |-> OtherException]
      [] event.body.kind = "malformed" ->
            [ok |-> FALSE, v |-> EmptyDict, err |-> <<"", "Ungültiges JSON im Request-Body">>,
             exc |-> HttpError(400, <<"", "Ungültiges JSON im Request-Body">>)]
      [] event.body.kind = "nonobject" ->
            [ok |-> FALSE, v |-> EmptyDict,
             err |-> <<"", "Request-Body muss ein JSON-Objekt sein">>,
             exc |-> HttpError(400, <<"", "Request-Body muss ein JSON-Objekt sein">>)]
      [] OTHER -> [ok |-> TRUE, v |-> event.body.obj, err |-> <<"", "">>, exc |-> NoException]

-----------------------------------------------------------------------------
(* exercises_handler.py: pure helpers *)

OPTIONAL_STRING_FIELDS == <<"mindfulness", "break_bell">>
OPTIONAL_INT_FIELDS == <<"prep_time", "duration", "rep_time", "rest_time">>
REQUIRED_POSITIVE_INT_FIELDS == <<"sets">>

S_test == <<"t","e","s","t">>
S_test_uebung == <<"t","e","s","t"," ","ü","b","u","n","g">>
S_testuebung == <<"t","e","s","t","ü","b","u","n","g">>

\* Decimal -> int (every number of the model is integral)
KeepDecimal(value) == value
_coerce_dynamodb_value(value) == IF value.t = "dec" THEN JInt(value.n) ELSE value

\* one item of _sanitize_items: exercise_id dropped, numbers coerced
SanitizeItem(it) ==
    [k \in DOMAIN it \ {"exercise_id"} |-> _coerce_dynamodb_value(it[k])]

\* the item as the table keeps it and hands it back: numbers become Decimal
Stored(it) == [k \in DOMAIN it |-> IF it[k].t = "int" THEN JDec(it[k].n) ELSE it[k]]

_normalize_optional_string(value, field_name) ==
    IF value.t = "null" THEN Ok(JNull)
    ELSE IF value.t # "str" THEN Err(field_name, "muss eine Zeichenkette sein")
    ELSE IF Strip(value.s) = <<>> THEN Ok(JNull)
    ELSE Ok(JStr(Strip(value.s)))

_parse_optional_int(value, field_name, positive) ==
    IF value.t = "null" \/ (value.t = "str" /\ value.s = <<>>) THEN Ok(JNull)
    ELSE IF value.t # "int" THEN Err(field_name, "muss eine Ganzzahl sein")
    ELSE IF positive THEN expect_positive_int(value, field_name)
    ELSE expect_non_negative_int(value, field_name)

_is_test_exercise_unnormalized(exercise_id) ==
    exercise_id \in {S_test, S_test_uebung, S_testuebung}

_is_test_exercise(exercise_id) ==
    LET normalized == Lower(Strip(exercise_id))
    IN  normalized \in {S_test, S_test_uebung, S_testuebung}

\* the three "for field in ..." loops of _build_item
RECURSIVE BuildFields(_, _, _, _)
BuildFields(acc, payload, fields, kind) ==
    IF ~acc.ok \/ fields = <<>> THEN acc
    ELSE LET field == Head(fields)
             r == CASE kind = "str" ->
                           _normalize_optional_string(Get(payload, field), field)
                    [] kind = "int" -> _parse_optional_int(Get(payload, field), field, FALSE)
                    [] OTHER -> _parse_optional_int(Get(payload, field), field, TRUE)
         IN  IF ~r.ok THEN [ok |-> FALSE, v |-> acc.v, err |-> r.err]
             ELSE BuildFields(
                      [acc EXCEPT !.v = IF r.v = JNull THEN @ ELSE With(@, field, r.v)],
                      payload, Tail(fields), kind)

_build_item(payload) ==
    LET id == expect_string(Get(payload, "id"), "id")
        name == expect_string(Get(payload, "name"), "name")
        instruction == expect_string(Get(payload, "instruction"), "instruction")
        fail(e) == [ok |-> FALSE, v |-> EmptyDict, err |-> e]
    IN  IF ~id.ok THEN fail(id.err)
        ELSE IF _is_test_exercise(id.v.s)
        THEN fail(<<"", "Test-Übungen können nicht in der Datenbank gespeichert werden">>)
        ELSE IF ~name.ok THEN fail(name.err)
        ELSE IF ~instruction.ok THEN fail(instruction.err)
        ELSE LET base == [exercise_id |-> id.v, id |-> id.v, name |-> name.v,
                          instruction |-> instruction.v]
                 a == BuildFields([ok |-> TRUE, v |-> base, err |-> <<"", "">>],
                                  payload, OPTIONAL_STRING_FIELDS, "str")
                 b == BuildFields(a, payload, OPTIONAL_INT_FIELDS, "int")
                 c == BuildFields(b, payload, REQUIRED_POSITIVE_INT_FIELDS, "pos")
             IN  IF ~c.ok THEN fail(c.err)
                 ELSE IF "sets" \notin DOMAIN c.v
                 THEN fail(<<"", "'sets' muss angegeben werden">>)
                 ELSE c

\* key=lambda entry: (entry.get("name") or "").lower()
NameKey(entry) ==
    LET n == Get(entry, "name") IN IF Truthy(n) /\ n.t = "str" THEN Lower(n.s) ELSE <<>>

\* list.sort(key=NameKey): stable insertion of x into the sorted list s
RECURSIVE InsertByName(_, _)
InsertByName(s, x) ==
    IF s = <<>> THEN <<x>>
    ELSE IF StrLess(NameKey(x), NameKey(Head(s))) THEN <<x>> \o s
    ELSE <<Head(s)>> \o InsertByName(Tail(s), x)

RECURSIVE SortByName(_)
SortByName(s) ==
    IF s = <<>> THEN <<>>
    ELSE InsertByName(SortByName(SubSeq(s, 1, Len(s) - 1)), s[Len(s)])

\* the response of _list_exercises for the scan result raw_items
ListResponse(raw_items) ==
    LET keep(it) == Truthy(Get(it, "id")) /\ ~_is_test_exercise(Get(it, "id").s)
        sanitized == SelectSeq([i \in 1..Len(raw_items) |-> SanitizeItem(raw_items[i])], keep)
        sorted == SortByName(sanitized)
    IN  json_response(200, [items |-> sorted, count |-> JInt(Len(sorted))])

\* ConditionExpression="attribute_not_exists(exercise_id)" evaluated by the table
AlwaysMet(tbl, key) == TRUE
attribute_not_exists(tbl, key) == key \notin DOMAIN tbl

-----------------------------------------------------------------------------
(* Catalog requests of the model *)

Workers == {1, 2}

S_a == <<"a">>
S_a_padded == <<" ","a"," ">>
S_b == <<"b">>
In_Test_Uebung == <<" ","T","e","s","t"," ","Ü","b","u","n","g">>
In_TESTUEBUNG == <<"T","E","S","T","Ü","B","U","N","G">>
ReservedInputs == {S_test, In_Test_Uebung, In_TESTUEBUNG}

BasePayload(id) ==
    [id |-> id, name |-> JStr(<<"Y">>), instruction |-> JStr(<<"i">>), sets |-> JInt(2)]

PayloadA == BasePayload(JStr(S_a))
PayloadB == [BasePayload(JStr(S_b)) EXCEPT !.name = JStr(<<"x">>)]
PayloadPadded ==
    [id |-> JStr(S_a_padded), name |-> JStr(<<" ","z"," ">>),
     instruction |-> JStr(<<"i"," ">>), sets |-> JInt(1), prep_time |-> JInt(5),
     mindfulness |-> JStr(<<" ","m">>), break_bell |-> JStr(<<" ">>),
     duration |-> JStr(<<>>)]

ReservedPayloads == {BasePayload(JStr(id)) : id \in ReservedInputs}
InvalidPayloads ==
    { BasePayload(JNull),
      [PayloadA EXCEPT !.sets = JInt(0)],
      Without(PayloadA, "sets"),
      With(PayloadA, "prep_time", JInt(0 - 1)) }

ObjectBody(payload) == [kind |-> "object", obj |-> payload]
EmptyBody == [kind |-> "empty", obj |-> EmptyDict]
MalformedBody == [kind |-> "malformed", obj |-> EmptyDict]
NonObjectBody == [kind |-> "nonobject", obj |-> EmptyDict]
UndecodableBody == [kind |-> "undecodable", obj |-> EmptyDict]

Event(method, exercise_id, body) ==
    [method |-> method, exercise_id |-> exercise_id, body |-> body]

PathIds == {S_a, S_a_padded, S_b} \cup ReservedInputs

PostRequests ==
    { Event("POST", <<>>, ObjectBody(p)) :
        p \in {PayloadA, PayloadPadded} \cup ReservedPayloads \cup InvalidPayloads }
    \cup {Event("POST", <<>>, b) : b \in {MalformedBody, NonObjectBody, UndecodableBody}}
PutRequests ==
    { Event("PUT", S_a, ObjectBody(p)) :
        p \in {PayloadA, PayloadB, [PayloadA EXCEPT !.sets = JInt(0)],
               With(PayloadA, "previousId", JStr(S_test))} }
    \cup {Event("PUT", S_test, ObjectBody(PayloadA)),
          Event("PUT", S_a, EmptyBody), Event("PUT", <<>>, ObjectBody(PayloadA))}
GetRequests == {Event("GET", id, EmptyBody) : id \in PathIds \cup {<<>>}}
DeleteRequests ==
    {Event("DELETE", id, EmptyBody) : id \in (PathIds \ {S_a_padded}) \cup {<<>>}}
\* a verb the handler does not know, a verb in lower case, and no method at all
OtherRequests ==
    {Event("OPTIONS", <<>>, EmptyBody), Event("PATCH", S_a, EmptyBody),
     Event("get", S_a, EmptyBody), Event("", S_a, EmptyBody)}

Requests == PostRequests \cup PutRequests \cup GetRequests \cup DeleteRequests
            \cup OtherRequests

\* records another writer left in the table, reserved test ids among them
LegacyItem(id) == Stored([BasePayload(JStr(id)) EXCEPT !.name = JStr(<<"L">>)]
                         @@ [exercise_id |-> JStr(id)])
TableOf(ids) == [k \in ids |-> LegacyItem(k)]
InitialTables == {TableOf({}), TableOf({S_test}), TableOf({In_TESTUEBUNG, S_b}),
                  TableOf({S_test, In_Test_Uebung, S_b})}

NoExpect == [has |-> FALSE, item |-> EmptyDict]
NoRequest == Event("", <<>>, EmptyBody)
StoreOutcomes == {"ok", "ClientError", "BotoCoreError"}

Call(op, key) == [op |-> op, key |-> key]

\* str.upper() on the method names a request may carry
UpperOf ==
    [get |-> "GET", post |-> "POST", put |-> "PUT", delete |-> "DELETE",
     options |-> "OPTIONS", patch |-> "PATCH"]
\* faulty variant: the method is compared as it was sent
MethodAsSent(m) == m
\* method = (http.get("method") or "").upper()
MethodUpper(m) == IF m \in DOMAIN UpperOf THEN UpperOf[m] ELSE m

-----------------------------------------------------------------------------
(* exercises_handler.py: the handler, one step per store call *)

InitCatalog ==
    /\ table \in InitialTables
    /\ table0 = DOMAIN table
    /\ pc = [w \in Workers |-> "idle"]
    /\ req = [w \in Workers |-> NoRequest]
    /\ item = [w \in Workers |-> EmptyDict]
    /\ resp = [w \in Workers |-> NoResponse]
    /\ calls = [w \in Workers |-> <<>>]
    /\ fault = [w \in Workers |-> FALSE]
    /\ expect = [w \in Workers |-> NoExpect]
    /\ created = [k \in {} |-> EmptyDict]
    /\ nreq = 0

\* the handler returns r
Return(w, r) ==
    /\ resp' = [resp EXCEPT ![w] = r]
    /\ pc' = [pc EXCEPT ![w] = "done"]

\* the handler goes on to the store call at label l with the built item it
Proceed(w, l, it) ==
    /\ pc' = [pc EXCEPT ![w] = l]
    /\ item' = [item EXCEPT ![w] = it]
    /\ resp' = [resp EXCEPT ![w] = NoResponse]

\* lambda_handler up to the first store call: dispatch, parse_json_body, _build_item
Receive(w, event) ==
    /\ pc[w] \in {"idle", "done"}
    /\ nreq < MaxRequests
    /\ nreq' = nreq + 1
    /\ req' = [req EXCEPT ![w] = event]
    /\ calls' = [calls EXCEPT ![w] = <<>>]
    /\ fault' = [fault EXCEPT ![w] = FALSE]
    /\ expect' = [expect EXCEPT ![w] = NoExpect]
    /\ UNCHANGED <<table, created, table0>>
    /\ UNCHANGED <<progVars, speechVars, envVars>>
    /\ LET method == MethodUpper(event.method)
           exercise_id == event.exercise_id
           parsed == parse_json_body(event)
           built == _build_item(parsed.v)
       IN  CASE method = "OPTIONS" ->
                    Return(w, json_response(200, [status |-> "ok"])) /\ UNCHANGED item
             [] method = "GET" /\ exercise_id # <<>> -> Proceed(w, "get_item", EmptyDict)
             [] method = "GET" /\ exercise_id = <<>> -> Proceed(w, "scan", EmptyDict)
             [] method = "POST" ->
                    IF ~parsed.ok THEN Return(w, with_error_handling(parsed.exc)) /\ UNCHANGED item
                    ELSE IF ~built.ok
                    THEN Return(w, ErrorResponse(400, built.err)) /\ UNCHANGED item
                    ELSE Proceed(w, "create_put", built.v)
             [] method = "PUT" /\ exercise_id # <<>> ->
                    IF ~parsed.ok THEN Return(w, with_error_handling(parsed.exc)) /\ UNCHANGED item
                    ELSE IF parsed.v = EmptyDict
                    THEN Return(w, ErrorResponse(400, <<"", "Request-Body fehlt">>))
                         /\ UNCHANGED item
                    ELSE IF ~built.ok
                    THEN Return(w, ErrorResponse(400, built.err)) /\ UNCHANGED item
                    ELSE Proceed(w, "update_put", built.v)
             [] method = "DELETE" /\ exercise_id # <<>> ->
                    IF _is_test_exercise(exercise_id)
                    THEN Return(w, ErrorResponse(404, <<"", "Übung wurde nicht gefunden">>))
                         /\ UNCHANGED item
                    ELSE Proceed(w, "delete_item", EmptyDict)
             [] OTHER ->
                    Return(w, ErrorResponse(405, <<"", "Methode wird nicht unterstützt">>))
                    /\ UNCHANGED item

\* _get_exercise: get_item, then the not-found test and the response
GetItem(w, outcome) ==
    /\ pc[w] = "get_item"
    /\ LET key == req[w].exercise_id
           found == key \in DOMAIN table
       IN  /\ calls' = [calls EXCEPT ![w] = Append(@, Call("get_item", key))]
           /\ IF outcome # "ok"
              THEN /\ fault' = [fault EXCEPT ![w] = TRUE]
                   /\ Return(w, ErrorResponse(502, <<"", "Übung konnte nicht geladen werden">>))
                   /\ UNCHANGED expect
              ELSE /\ UNCHANGED fault
                   /\ expect' = [expect EXCEPT ![w] =
                          IF key \in DOMAIN created
                          THEN [has |-> TRUE, item |-> created[key]] ELSE NoExpect]
                   /\ IF ~found \/ _is_test_exercise(Get(table[key], "id").s)
                      THEN Return(w, ErrorResponse(404, <<"", "Übung wurde nicht gefunden">>))
                      ELSE Return(w, json_response(200, [item |-> SanitizeItem(table[key])]))
    /\ UNCHANGED <<table, req, item, created, table0, nreq>>
    /\ UNCHANGED <<progVars, speechVars, envVars>>

\* the orders in which a scan may hand back the items of the table
ScanOrders(tbl) ==
    {o \in [1..Cardinality(DOMAIN tbl) -> DOMAIN tbl] :
        \A i, j \in DOMAIN o : i # j => o[i] # o[j]}

\* _list_exercises: scan, filter, sort
Scan(w, outcome) ==
    /\ pc[w] = "scan"
    /\ calls' = [calls EXCEPT ![w] = Append(@, Call("scan", <<>>))]
    /\ IF outcome # "ok"
       THEN /\ fault' = [fault EXCEPT ![w] = TRUE]
            /\ Return(w, ErrorResponse(502, <<"", "Übungen konnten nicht geladen werden">>))
       ELSE /\ UNCHANGED fault
            /\ \E o \in ScanOrders(table) :
                  Return(w, ListResponse([i \in DOMAIN o |-> table[o[i]]]))
    /\ UNCHANGED <<table, req, item, expect, created, table0, nreq>>
    /\ UNCHANGED <<progVars, speechVars, envVars>>

\* _create_exercise: put_item with ConditionExpression attribute_not_exists(exercise_id)
CreatePut(w, outcome) ==
    /\ pc[w] = "create_put"
    /\ LET key == item[w]["exercise_id"].s
       IN  /\ calls' = [calls EXCEPT ![w] = Append(@, Call("put_item", key))]
           /\ IF outcome # "ok"
              THEN /\ fault' = [fault EXCEPT ![w] = TRUE]
                   /\ Return(w, ErrorResponse(502, <<"", "Übung konnte nicht gespeichert werden">>))
                   /\ UNCHANGED <<table, created>>
              ELSE /\ UNCHANGED fault
                   /\ IF attribute_not_exists(table, key)
                      THEN /\ table' = With(table, key, Stored(item[w]))
                           /\ created' = With(created, key, SanitizeItem(item[w]))
                           /\ Return(w, json_response(201, [item |-> SanitizeItem(item[w])]))
                      ELSE /\ UNCHANGED <<table, created>>
                           /\ Return(w, ErrorResponse(409,
                                  <<"", "Es existiert bereits eine Übung mit dieser ID">>))
    /\ UNCHANGED <<req, item, expect, table0, nreq>>
    /\ UNCHANGED <<progVars, speechVars, envVars>>

\* faulty variant: the previous id is always the path id
PreviousIdFromPath(event) == JStr(event.exercise_id)

\* previous_id = payload.get("previousId") or path_id
PreviousId(event) ==
    LET p == Get(parse_json_body(event).v, "previousId")
    IN  IF Truthy(p) THEN p ELSE JStr(event.exercise_id)

\* _update_exercise: the unconditional put_item
UpdatePut(w, outcome) ==
    /\ pc[w] = "update_put"
    /\ LET key == item[w]["exercise_id"].s
           previous_id == PreviousId(req[w])
       IN  /\ calls' = [calls EXCEPT ![w] = Append(@, Call("put_item", key))]
           /\ IF outcome # "ok"
              THEN /\ fault' = [fault EXCEPT ![w] = TRUE]
                   /\ Return(w, ErrorResponse(502,
                          <<"", "Übung konnte nicht aktualisiert werden">>))
                   /\ UNCHANGED <<table, created>>
              ELSE /\ UNCHANGED fault
                   /\ table' = With(table, key, Stored(item[w]))
                   /\ created' = Without(created, key)
                   /\ IF Truthy(previous_id) /\ previous_id # item[w]["id"]
                      THEN /\ pc' = [pc EXCEPT ![w] = "update_delete"]
                           /\ UNCHANGED resp
                      ELSE Return(w, json_response(200, [item |-> SanitizeItem(item[w])]))
    /\ UNCHANGED <<req, item, expect, table0, nreq>>
    /\ UNCHANGED <<progVars, speechVars, envVars>>

\* _update_exercise: the best-effort delete_item of the previous id
UpdateDelete(w, outcome) ==
    /\ pc[w] = "update_delete"
    /\ LET key == PreviousId(req[w]).s
       IN  /\ calls' = [calls EXCEPT ![w] = Append(@, Call("delete_item", key))]
           /\ IF outcome # "ok"
              THEN /\ fault' = [fault EXCEPT ![w] = TRUE]
                   /\ UNCHANGED <<table, created>>
              ELSE /\ UNCHANGED fault
                   /\ table' = Without(table, key)
                   /\ created' = Without(created, key)
           /\ Return(w, json_response(200, [item |-> SanitizeItem(item[w])]))
    /\ UNCHANGED <<req, item, expect, table0, nreq>>
    /\ UNCHANGED <<progVars, speechVars, envVars>>

\* faulty variant: the answer of delete_item always carries "Attributes"
AlwaysAttributes(tbl, key) == TRUE
\* ReturnValues="ALL_OLD": "Attributes" is in the answer when the key held a record
ReturnsAttributes(tbl, key) == key \in DOMAIN tbl

\* _delete_exercise: delete_item with ReturnValues="ALL_OLD"
DeleteItem(w, outcome) ==
    /\ pc[w] = "delete_item"
    /\ LET key == req[w].exercise_id
       IN  /\ calls' = [calls EXCEPT ![w] = Append(@, Call("delete_item", key))]
           /\ IF outcome # "ok"
              THEN /\ fault' = [fault EXCEPT ![w] = TRUE]
                   /\ Return(w, ErrorResponse(502, <<"", "Übung konnte nicht gelöscht werden">>))
                   /\ UNCHANGED <<table, created>>
              ELSE /\ UNCHANGED fault
                   /\ table' = Without(table, key)
                   /\ created' = Without(created, key)
                   /\ IF ~ReturnsAttributes(table, key)
                      THEN Return(w, ErrorResponse(404, <<"", "Übung wurde nicht gefunden">>))
                      ELSE Return(w, json_response(204, [status |-> "deleted"]))
    /\ UNCHANGED <<req, item, expect, table0, nreq>>
    /\ UNCHANGED <<progVars, speechVars, envVars>>

NextCatalog ==
    \/ \E w \in Workers, event \in Requests : Receive(w, event)
    \/ \E w \in Workers, outcome \in StoreOutcomes : GetItem(w, outcome)
    \/ \E w \in Workers, outcome \in StoreOutcomes : Scan(w, outcome)
    \/ \E w \in Workers, outcome \in StoreOutcomes : CreatePut(w, outcome)
    \/ \E w \in Workers, outcome \in StoreOutcomes : UpdatePut(w, outcome)
    \/ \E w \in Workers, outcome \in StoreOutcomes : UpdateDelete(w, outcome)
    \/ \E w \in Workers, outcome \in StoreOutcomes : DeleteItem(w, outcome)

-----------------------------------------------------------------------------
(* progress_handler.py: timestamps *)

\* An ISO-8601 text is a sequence of tokens: the date-time, then the zone ("Z", an
\* offset, or nothing for a naive time).  Minutes of the day stand for instants.
IsoTable ==
    { <<600, "2024-07-09T10:00:00">>, <<645, "2024-07-09T10:45:00">>,
      <<646, "2024-07-09T10:46:00">>, <<647, "2024-07-09T10:47:00">>,
      <<648, "2024-07-09T10:48:00">>, <<649, "2024-07-09T10:49:00">>,
      <<705, "2024-07-09T11:45:00">>, <<720, "2024-07-09T12:00:00">>,
      <<765, "2024-07-09T12:45:00">>, <<1350, "2024-07-09T22:30:00">>,
      <<1410, "2024-07-09T23:30:00">>, <<1470, "2024-07-10T00:30:00">> }
OffsetTable == { <<"+00:00", 0>>, <<"+02:00", 120>>, <<"-01:00", 0 - 60>> }

IsIso(tok) == \E p \in IsoTable : p[2] = tok
MinuteOf(tok) == (CHOOSE p \in IsoTable : p[2] = tok)[1]
IsoOf(m) == (CHOOSE p \in IsoTable : p[1] = m)[2]
IsOffset(tok) == \E p \in OffsetTable : p[1] = tok
OffsetOf(tok) == (CHOOSE p \in OffsetTable : p[1] = tok)[2]

\* str.replace(old, new) on tokens
Replace(s, old, new) == [i \in 1..Len(s) |-> IF s[i] = old THEN new ELSE s[i]]

\* faulty variant: the UTC offset is left as isoformat() writes it
FormatUtcOffset(minute) == <<IsoOf(minute), "+00:00">>

\* datetime.isoformat() of a UTC datetime, then .replace("+00:00", "Z")
FormatUtc(minute) == Replace(<<IsoOf(minute), "+00:00">>, "+00:00", "Z")

_parse_iso_timestamp(value, field_name) ==
    IF value.t = "null" THEN Ok(JNull)
    ELSE IF value.t # "str" THEN Err(field_name, "muss ein ISO-8601 String sein")
    ELSE LET trimmed == Strip(value.s)
             text == Replace(trimmed, "Z", "+00:00")
             naive == Len(text) = 1 /\ IsIso(text[1])
             aware == Len(text) = 2 /\ IsIso(text[1]) /\ IsOffset(text[2])
         IN  IF trimmed = <<>> THEN Ok(JNull)
             ELSE IF ~(naive \/ aware)
             THEN Err(field_name, "ist kein gültiger ISO-8601 Zeitstempel")
             \* astimezone(utc); a naive time is local time, and the host runs in UTC
             ELSE IF naive THEN Ok(JStr(FormatUtc(MinuteOf(text[1]))))
             ELSE Ok(JStr(FormatUtc(MinuteOf(text[1]) - OffsetOf(text[2]))))

_utc_now_iso(clock) == JStr(FormatUtc(clock))

\* how often _parse_iso_timestamp is applied to its own result
MaxNormalizations == 2

ZoneTokens == {"Z"} \cup {p[1] : p \in OffsetTable}
\* the instant a text with a zone denotes
InstantOf(text) ==
    MinuteOf(text[1]) - (IF text[2] = "Z" THEN 0 ELSE OffsetOf(text[2]))
\* texts with "Z" or an offset whose UTC time the table can print
AwareTexts ==
    {t \in {<<p[2], z>> : p \in IsoTable, z \in ZoneTokens} :
        \E q \in IsoTable : q[1] = InstantOf(t)}
TimestampInputs ==
    {JStr(t) : t \in AwareTexts} \cup {JStr(<<" ">> \o t \o <<" ", " ">>) : t \in AwareTexts}
    \cup {JStr(<<p[2]>>) : p \in IsoTable}
    \cup {JNull, JInt(5), JStr(<<>>), JStr(<<" ">>), JStr(<<"gestern">>),
          JStr(<<"2024-07-09T12:45:00", "+02:00", "Z">>)}

NoStamp == [value |-> JNull, runs |-> <<>>]

\* _parse_iso_timestamp applied to the value, then to the string it returned
ParseTimestamp ==
    /\ Len(parsed_at.runs) < MaxNormalizations
    /\ LET last == parsed_at.runs[Len(parsed_at.runs)]
           value == IF parsed_at.runs = <<>> THEN parsed_at.value ELSE last.v
       IN  /\ parsed_at.runs # <<>> => last.ok /\ last.v.t = "str"
           /\ parsed_at' = [parsed_at EXCEPT
                            !.runs = Append(@, _parse_iso_timestamp(value, "finishedAt"))]
    /\ UNCHANGED <<catVars, progVars, speechVars, env, envelope>>

NextTimestamp == ParseTimestamp

-----------------------------------------------------------------------------
(* progress_handler.py: pure helpers *)

DEFAULT_LIST_LIMIT == 250
MAX_LIST_LIMIT == 500
\* the cap of the internal page size in _list_progress_entries
MAX_PAGE_SIZE == 100

DigitChars == <<"0","1","2","3","4","5","6","7","8","9">>
IsDigit(c) == \E i \in 1..10 : DigitChars[i] = c
DigitVal(c) == (CHOOSE i \in 1..10 : DigitChars[i] = c) - 1

RECURSIVE DigitsValue(_)
DigitsValue(s) ==
    IF s = <<>> THEN 0
    ELSE DigitsValue(SubSeq(s, 1, Len(s) - 1)) * 10 + DigitVal(s[Len(s)])

\* int(str): surrounding whitespace and a sign are accepted
ParseInt(s) ==
    LET t == Strip(s)
        signed == t # <<>> /\ Head(t) \in {"+", "-"}
        digits == IF signed THEN Tail(t) ELSE t
        valid == digits # <<>> /\ \A i \in 1..Len(digits) : IsDigit(digits[i])
    IN  IF ~valid THEN [ok |-> FALSE, n |-> 0]
        ELSE [ok |-> TRUE,
              n |-> IF signed /\ Head(t) = "-" THEN 0 - DigitsValue(digits)
                    ELSE DigitsValue(digits)]

\* faulty variant: the hard cap is not applied
_parse_limit_uncapped(event) ==
    LET raw_limit == Get(event.query, "limit")
    IN  IF raw_limit.t = "null" \/ raw_limit.s = <<>> THEN Ok(JInt(DEFAULT_LIST_LIMIT))
        ELSE IF ~ParseInt(raw_limit.s).ok \/ ParseInt(raw_limit.s).n <= 0
        THEN Err("limit", "muss eine Ganzzahl sein")
        ELSE Ok(JInt(ParseInt(raw_limit.s).n))

_parse_limit(event) ==
    LET raw_limit == Get(event.query, "limit")
        limit == ParseInt(raw_limit.s)
    IN  IF raw_limit.t = "null" \/ raw_limit.s = <<>> THEN Ok(JInt(DEFAULT_LIST_LIMIT))
        ELSE IF ~limit.ok THEN Err("limit", "muss eine Ganzzahl sein")
        ELSE IF limit.n <= 0 THEN Err("limit", "muss größer als 0 sein")
        ELSE Ok(JInt(IF limit.n < MAX_LIST_LIMIT THEN limit.n ELSE MAX_LIST_LIMIT))

_extract_duration(payload) ==
    LET duration == Get(payload, "durationMs")
    IN  IF "durationMs" \notin DOMAIN payload \/ duration.t = "null" THEN Ok(JNull)
        ELSE IF duration.t # "int" THEN Err("durationMs", "muss eine Ganzzahl sein")
        ELSE IF duration.n < 0 THEN Err("durationMs", "darf nicht negativ sein")
        ELSE Ok(duration)

\* "if x is not None: x = expect_...(x, name)"
IfGiven(value, checked) == IF value.t = "null" THEN Ok(JNull) ELSE checked

\* the first HttpError among the validations, in the order the code runs them
RECURSIVE FirstError(_)
FirstError(results) ==
    IF results = <<>> THEN <<"", "">>
    ELSE IF ~Head(results).ok THEN Head(results).err
    ELSE FirstError(Tail(results))

\* a dict with the key set only when the value is given
WithGiven(d, k, v) == IF v.t = "null" THEN d ELSE With(d, k, v)

\* faulty variant: the completion time is taken from the request's finishedAt when given
ProgressItemFromFinishedAt(f, clock) ==
    LET base == [client_id |-> f.client_id,
                 completed_at |-> IF f.finished_at.t = "null" THEN _utc_now_iso(clock)
                                  ELSE f.finished_at,
                 exercise_id |-> f.exercise_id, total_sets |-> f.total_sets,
                 sets_completed |-> f.sets_completed]
    IN  WithGiven(WithGiven(base, "started_at", f.started_at),
                  "finished_at", f.finished_at)

\* the item of _store_progress_entry, from the validated fields f
ProgressItem(f, clock) ==
    LET base == [client_id |-> f.client_id, completed_at |-> _utc_now_iso(clock),
                 exercise_id |-> f.exercise_id, total_sets |-> f.total_sets,
                 sets_completed |-> f.sets_completed]
        a == IF Truthy(f.exercise_name) THEN With(base, "exercise_name", f.exercise_name)
             ELSE base
        b == WithGiven(a, "duration_ms", f.duration_ms)
        c == WithGiven(b, "rep_time_seconds", f.rep_time)
        d == WithGiven(c, "rest_time_seconds", f.rest_time)
        e == WithGiven(d, "prep_time_seconds", f.prep_time)
        g == WithGiven(e, "started_at", f.started_at)
    IN  WithGiven(g, "finished_at", f.finished_at)

\* _store_progress_entry up to the put_item: the item, or the HttpError(400, ...)
BuildProgressItem(payload, clock) ==
    LET client_id == expect_string(Get(payload, "clientId"), "clientId")
        exercise_id == expect_string(Get(payload, "exerciseId"), "exerciseId")
        total_sets == expect_positive_int(Get(payload, "totalSets"), "totalSets")
        sets_completed ==
            expect_positive_int(Get(payload, "setsCompleted"), "setsCompleted")
        complete ==
            IF total_sets.ok /\ sets_completed.ok /\ sets_completed.v.n < total_sets.v.n
            THEN Err("", "Die Übung wurde nicht vollständig abgeschlossen")
            ELSE Ok(JNull)
        duration_ms == _extract_duration(payload)
        exercise_name ==
            _normalize_optional_string(Get(payload, "exerciseName"), "exerciseName")
        rep_time == IfGiven(Get(payload, "repTime"),
                            expect_positive_int(Get(payload, "repTime"), "repTime"))
        rest_time == IfGiven(Get(payload, "restTime"),
                             expect_non_negative_int(Get(payload, "restTime"), "restTime"))
        prep_time == IfGiven(Get(payload, "prepTime"),
                             expect_non_negative_int(Get(payload, "prepTime"), "prepTime"))
        started_at == _parse_iso_timestamp(Get(payload, "startedAt"), "startedAt")
        finished_at == _parse_iso_timestamp(Get(payload, "finishedAt"), "finishedAt")
        all == <<client_id, exercise_id, total_sets, sets_completed, complete,
                 duration_ms, exercise_name, rep_time, rest_time, prep_time,
                 started_at, finished_at>>
        fields == [client_id |-> client_id.v, exercise_id |-> exercise_id.v,
                   total_sets |-> total_sets.v, sets_completed |-> sets_completed.v,
                   duration_ms |-> duration_ms.v, exercise_name |-> exercise_name.v,
                   rep_time |-> rep_time.v, rest_time |-> rest_time.v,
                   prep_time |-> prep_time.v, started_at |-> started_at.v,
                   finished_at |-> finished_at.v]
    IN  IF \E i \in 1..Len(all) : ~all[i].ok
        THEN [ok |-> FALSE, v |-> EmptyDict, err |-> FirstError(all)]
        ELSE [ok |-> TRUE, v |-> ProgressItem(fields, clock), err |-> <<"", "">>]

\* one item of the progress handler's _sanitize_items: numbers coerced
SanitizeEntry(it) == [k \in DOMAIN it |-> _coerce_dynamodb_value(it[k])]

\* the rank of item.get("completed_at") or "" in the order of str; every timestamp
\* of the model has the same date and zone token, so the minute decides
CompletedAtRank(it) ==
    LET c == Get(it, "completed_at")
    IN  IF ~Truthy(c) \/ c.s = <<>> THEN 0 - 1 ELSE MinuteOf(c.s[1])

\* sorted(..., key=completed_at or "", reverse=True): stable, latest first
SortByCompletedAtDesc(items) ==
    LET RECURSIVE Desc(_)
        Desc(keys) ==
            IF keys = {} THEN <<>>
            ELSE LET k == Max(keys)
                 IN  SelectSeq(items, LAMBDA it : CompletedAtRank(it) = k)
                     \o Desc(keys \ {k})
    IN  Desc({CompletedAtRank(items[i]) : i \in 1..Len(items)})

\* items[:limit]
Truncate(items, limit) == SubSeq(items, 1, IF Len(items) < limit THEN Len(items) ELSE limit)

\* the response of _list_progress_entries once the loop has ended
ListProgressResponse(items, limit) ==
    json_response(200, [items |-> Truncate(SortByCompletedAtDesc(items), limit)])

\* faulty variant: the page size is what is still missing, without the cap
PageSizeUncapped(limit, collected) == IF limit - collected < 1 THEN 1 ELSE limit - collected

\* page_size = max(1, min(limit - len(items), 100))
PageSize(limit, collected) ==
    LET m == IF limit - collected < MAX_PAGE_SIZE THEN limit - collected ELSE MAX_PAGE_SIZE
    IN  IF m < 1 THEN 1 ELSE m

-----------------------------------------------------------------------------
(* Progress requests of the model *)

S_u1 == <<"u","1">>
S_kieser == <<"k","i","e","s","e","r">>
T_1245_plus2 == <<"2024-07-09T12:45:00", "+02:00">>
T_1200_plus2 == <<"2024-07-09T12:00:00", "+02:00">>
T_1045_Z == <<" ", "2024-07-09T10:45:00", "Z">>
T_1045_minus1 == <<"2024-07-09T10:45:00", "-01:00">>
T_1245_naive == <<"2024-07-09T12:45:00">>
T_invalid == <<"gestern">>

Submission(total, completed) ==
    [clientId |-> JStr(S_u1), exerciseId |-> JStr(S_kieser),
     totalSets |-> JInt(total), setsCompleted |-> JInt(completed)]

\* the payload of test_store_progress_uses_finished_time_for_completion
TestPayload ==
    Submission(1, 1) @@ [durationMs |-> JInt(2700000), startedAt |-> JStr(T_1200_plus2),
                         finishedAt |-> JStr(T_1245_plus2)]

CompleteSubmissions ==
    { Submission(2, 2),
      TestPayload,
      Submission(2, 3) @@ [finishedAt |-> JStr(T_1045_Z), exerciseName |-> JStr(<<" ","n">>),
                           repTime |-> JInt(3), restTime |-> JInt(0), prepTime |-> JInt(1)],
      Submission(1, 1) @@ [finishedAt |-> JStr(T_1045_minus1), durationMs |-> JNull],
      Submission(1, 2) @@ [startedAt |-> JStr(T_1245_naive), finishedAt |-> JStr(<<" ">>)] }
IncompleteSubmissions ==
    { Submission(2, 1),
      Submission(3, 2) @@ [finishedAt |-> JStr(T_1245_plus2)],
      [Submission(2, 1) EXCEPT !.clientId = JNull] }
RejectedSubmissions ==
    { Submission(0, 0),
      [Submission(2, 2) EXCEPT !.clientId = JStr(<<" ">>)],
      Submission(2, 2) @@ [durationMs |-> JInt(0 - 1)],
      Submission(2, 2) @@ [finishedAt |-> JStr(T_invalid)],
      Submission(2, 2) @@ [repTime |-> JInt(0)] }

ProgressEvent(method, query, body) == [method |-> method, query |-> query, body |-> body]

ProgressPosts ==
    { ProgressEvent("POST", EmptyDict, ObjectBody(p)) :
        p \in CompleteSubmissions \cup IncompleteSubmissions \cup RejectedSubmissions }
    \cup {ProgressEvent("POST", EmptyDict, b) :
             b \in {MalformedBody, NonObjectBody, UndecodableBody}}

LimitInputs == { <<"2">>, <<" ","3"," ">>, <<"6","0","0">>, <<"0">>, <<"-","1">>,
                 <<"a","b","c">>, <<>> }
ProgressGets ==
    { ProgressEvent("GET", [limit |-> JStr(l)], EmptyBody) : l \in LimitInputs }
    \cup {ProgressEvent("GET", EmptyDict, EmptyBody)}

\* the event of test_delete_progress_accepts_query_parameters
TestDelete ==
    ProgressEvent("DELETE",
                  [clientId |-> JStr(S_u1),
                   completedAt |-> JStr(<<"2024-07-09T10:45:00", "Z">>)],
                  EmptyBody)
ProgressOthers == {TestDelete, ProgressEvent("PUT", EmptyDict, EmptyBody)}

\* entry i of a table laid out before the first request
Entry(i) ==
    Stored([client_id |-> JStr(<<"u", ToString(i)>>),
            completed_at |-> JStr(FormatUtc(645 + (i % 4))),
            exercise_id |-> JStr(S_kieser), total_sets |-> JInt(1),
            sets_completed |-> JInt(1)])
TableOfSize(n) == [i \in 1..n |-> Entry(i)]

NoScan == [limit |-> 0, start |-> 0]
NoProgressEvent == ProgressEvent("", EmptyDict, EmptyBody)

\* how many items the table may hand back when asked for at most page_size, with
\* remaining items left to scan
PageCounts(page_size, remaining) ==
    LET most == IF page_size < remaining THEN page_size ELSE remaining
    IN  {n \in 1..most : n = most \/ n \in {1, 40}}

-----------------------------------------------------------------------------
(* progress_handler.py: the handler *)

InitProgressWith(tables) ==
    /\ ptable \in tables
    /\ now = 646
    /\ ppc = "idle"
    /\ preq = NoProgressEvent
    /\ presp = NoResponse
    /\ pcalls = <<>>
    /\ plast = NoScan
    /\ plimit = 0
    /\ pitems = <<>>
    /\ pstart = 0
    /\ pclock = 0
    /\ pfault = FALSE
    /\ pnreq = 0

\* the handler starts on event, the budget of requests permitting
Accept(event, budget) ==
    /\ ppc \in {"idle", "done"}
    /\ pnreq < budget
    /\ pnreq' = pnreq + 1
    /\ preq' = event
    /\ pclock' = now
    /\ UNCHANGED now
    /\ UNCHANGED <<catVars, speechVars, envVars>>

\* the server clock advances
Tick ==
    /\ now < 646 + MaxClock
    /\ now' = now + 1
    /\ UNCHANGED <<ptable, ppc, preq, presp, pcalls, plast, plimit, pitems, pstart,
                   pclock, pfault, pnreq>>
    /\ UNCHANGED <<catVars, speechVars, envVars>>

\* lambda_handler: OPTIONS
ProgressOptions(event) ==
    /\ event.method = "OPTIONS"
    /\ Accept(event, MaxProgressRequests)
    /\ presp' = json_response(200, [status |-> "ok"])
    /\ ppc' = "done"
    /\ pcalls' = <<>> /\ plast' = NoScan /\ pfault' = FALSE
    /\ UNCHANGED <<ptable, plimit, pitems, pstart>>

\* lambda_handler: any method other than OPTIONS, GET and POST
ProgressUnsupported(event) ==
    /\ event.method \notin {"OPTIONS", "GET", "POST"}
    /\ Accept(event, MaxProgressRequests)
    /\ presp' = ErrorResponse(405, <<"", "Methode wird nicht unterstützt">>)
    /\ ppc' = "done"
    /\ pcalls' = <<>> /\ plast' = NoScan /\ pfault' = FALSE
    /\ UNCHANGED <<ptable, plimit, pitems, pstart>>

\* put_item on the progress table: the entry of the same key is replaced, a new
\* entry takes the place pos of the scan order
PutEntry(tbl, it, pos) ==
    LET same(i) == /\ tbl[i]["client_id"] = it["client_id"]
                   /\ tbl[i]["completed_at"] = it["completed_at"]
    IN  IF \E i \in 1..Len(tbl) : same(i)
        THEN [i \in 1..Len(tbl) |-> IF same(i) THEN it ELSE tbl[i]]
        ELSE SubSeq(tbl, 1, pos - 1) \o <<it>> \o SubSeq(tbl, pos, Len(tbl))

\* _store_progress_entry
StoreProgressEntry(event, outcome, pos) ==
    /\ event.method = "POST"
    /\ Accept(event, MaxProgressRequests)
    /\ pos \in 1..(Len(ptable) + 1)
    /\ plast' = NoScan
    /\ UNCHANGED <<plimit, pitems, pstart>>
    /\ ppc' = "done"
    /\ LET parsed == parse_json_body(event)
           built == BuildProgressItem(parsed.v, now)
       IN  IF ~parsed.ok
           THEN /\ presp' = with_error_handling(parsed.exc)
                /\ pcalls' = <<>> /\ pfault' = FALSE /\ UNCHANGED ptable
           ELSE IF ~built.ok
           THEN /\ presp' = ErrorResponse(400, built.err)
                /\ pcalls' = <<>> /\ pfault' = FALSE /\ UNCHANGED ptable
           ELSE /\ pcalls' = <<[op |-> "put_item", item |-> built.v]>>
                /\ IF outcome # "ok"
                   THEN /\ pfault' = TRUE
                        /\ UNCHANGED ptable
                        /\ presp' = ErrorResponse(502,
                               <<"", "Übungsfortschritt konnte nicht gespeichert werden">>)
                   ELSE /\ pfault' = FALSE
                        /\ ptable' = PutEntry(ptable, Stored(built.v), pos)
                        /\ presp' = json_response(201,
                               [status |-> "stored", completedAt |-> built.v["completed_at"]])

\* _list_progress_entries up to the loop: _parse_limit
ListProgressEntries(event, budget) ==
    /\ event.method = "GET"
    /\ Accept(event, budget)
    /\ pcalls' = <<>> /\ plast' = NoScan /\ pfault' = FALSE
    /\ pitems' = <<>>
    /\ pstart' = 0
    /\ UNCHANGED ptable
    /\ LET limit == _parse_limit(event)
       IN  IF ~limit.ok
           THEN /\ presp' = ErrorResponse(400, limit.err)
                /\ ppc' = "done"
                /\ plimit' = 0
           ELSE /\ presp' = NoResponse
                /\ ppc' = "scan"
                /\ plimit' = limit.v.n

\* one turn of the loop of _list_progress_entries: the scan call hands back n items
\* and, when more is set, a LastEvaluatedKey; after the last turn, sort and respond
ScanPage(n, more, outcome) ==
    /\ ppc = "scan"
    /\ LET page_size == PageSize(plimit, Len(pitems))
           remaining == Len(ptable) - pstart
           items == pitems \o [i \in 1..n |-> SanitizeEntry(ptable[pstart + i])]
       IN  /\ plast' = [limit |-> page_size, start |-> pstart]
           /\ IF outcome # "ok"
              THEN /\ n = 0 /\ ~more
                   /\ pfault' = TRUE
                   /\ presp' = InternalError
                   /\ ppc' = "done"
                   /\ UNCHANGED <<pitems, pstart>>
              ELSE /\ IF remaining = 0 THEN n = 0 ELSE n \in PageCounts(page_size, remaining)
                   \* a page that stops before the end of the table carries a key
                   /\ (n < remaining) => more
                   /\ (remaining = 0) => ~more
                   /\ UNCHANGED pfault
                   /\ pitems' = items
                   /\ pstart' = IF more THEN pstart + n ELSE 0
                   /\ IF more /\ Len(items) < plimit
                      THEN ppc' = "scan" /\ presp' = NoResponse
                      ELSE /\ ppc' = "done"
                           /\ presp' = ListProgressResponse(items, plimit)
    /\ UNCHANGED <<ptable, now, preq, pcalls, plimit, pclock, pnreq>>
    /\ UNCHANGED <<catVars, speechVars, envVars>>

CatalogIdle ==
    /\ table = TableOf({})
    /\ table0 = {}
    /\ pc = [w \in Workers |-> "idle"]
    /\ req = [w \in Workers |-> NoRequest]
    /\ item = [w \in Workers |-> EmptyDict]
    /\ resp = [w \in Workers |-> NoResponse]
    /\ calls = [w \in Workers |-> <<>>]
    /\ fault = [w \in Workers |-> FALSE]
    /\ expect = [w \in Workers |-> NoExpect]
    /\ created = [k \in {} |-> EmptyDict]
    /\ nreq = 0

\* the progress handler at rest
ProgressIdle == InitProgressWith({<<>>})

\* the page lengths the table may answer the pending scan call with
PageChoices ==
    IF ppc # "scan" THEN {}
    ELSE {0} \cup PageCounts(PageSize(plimit, Len(pitems)), Len(ptable) - pstart)

NextProgress ==
    \/ Tick
    \/ ProgressOptions(ProgressEvent("OPTIONS", EmptyDict, EmptyBody))
    \/ \E event \in ProgressOthers : ProgressUnsupported(event)
    \/ \E event \in ProgressPosts, outcome \in StoreOutcomes, pos \in {1, Len(ptable) + 1} :
          StoreProgressEntry(event, outcome, pos)
    \/ \E event \in ProgressGets : ListProgressEntries(event, MaxProgressRequests)
    \/ \E n \in PageChoices, more \in BOOLEAN, outcome \in StoreOutcomes :
          ScanPage(n, more, outcome)

NextListing ==
    \/ \E event \in ProgressGets : ListProgressEntries(event, 1)
    \/ \E n \in PageChoices, more \in BOOLEAN, outcome \in StoreOutcomes :
          ScanPage(n, more, outcome)

-----------------------------------------------------------------------------
(* polly_handler.py: pure helpers *)

DEFAULT_LANGUAGE == <<"d","e","-","D","E">>
DEFAULT_VOICE == <<"V","i","c","k","i">>
MAX_TEXT_LENGTH == 1500
\* maxsize of the lru_cache of _supported_engines_for_voice
CACHE_MAXSIZE == 256

S_neural == <<"n","e","u","r","a","l">>
NeuralHintCodes == {<<"i","n","v","a","l","i","d","p","a","r","a","m","e","t","e","r","c","o","m","b","i","n","a","t","i","o","n">>,
                    <<"e","n","g","i","n","e","n","o","t","s","u","p","p","o","r","t","e","d","e","x","c","e","p","t","i","o","n">>}
NeuralOnlyVoices == {<<"d","a","n","i","e","l">>, <<"h","a","n","n","a","h">>, <<"v","i","c","k","i">>}

\* what describe_voices may answer: it raises, it knows no such voice, or it names
\* the voice with its SupportedEngines
DescribeAnswer(kind, engines) == [kind |-> kind, engines |-> engines]
DescribeAnswers ==
    { DescribeAnswer("error", {}), DescribeAnswer("empty", {}),
      DescribeAnswer("voice", {}), DescribeAnswer("voice", {"standard"}),
      DescribeAnswer("voice", {"neural"}), DescribeAnswer("voice", {"standard", "neural"}),
      DescribeAnswer("voice", {"long-form"}) }

\* the body of _supported_engines_for_voice (a cache miss), given the provider's answer
SupportedEngines(answer) == IF answer.kind = "voice" THEN answer.engines ELSE {}

\* faulty variant: neural is preferred whenever the voice offers it
_select_engine_prefers_neural(engines) == IF "neural" \in engines THEN "neural" ELSE ""

\* _select_engine, given what _supported_engines_for_voice returned; "" is None
_select_engine(engines) ==
    IF engines = {} \/ "standard" \in engines THEN ""
    ELSE IF "neural" \in engines THEN "neural"
    ELSE ""

\* faulty variant: no retry
NeverRetry(error, voice) == FALSE

_should_retry_with_neural(error, voice) ==
    LET error_code == Lower(Strip(error.code))
        error_message == Lower(Strip(error.message))
        normalized_voice == Lower(Strip(voice))
    IN  IF normalized_voice = <<>> THEN FALSE
        ELSE IF error_code \in NeuralHintCodes THEN TRUE
        ELSE IF Contains(error_message, S_neural) THEN TRUE
        ELSE normalized_voice \in NeuralOnlyVoices

\* (payload.get(key) or default).strip() or default
OrDefault(value, default) ==
    LET given == IF Truthy(value) THEN value.s ELSE default
    IN  IF Strip(given) = <<>> THEN default ELSE Strip(given)

\* (value or default).strip() raises AttributeError when value is truthy and no string
StripRaises(value) == Truthy(value) /\ value.t # "str"

\* text = (payload.get("text") or "").strip()
TextOf(event) ==
    LET v == Get(parse_json_body(event).v, "text")
    IN  IF Truthy(v) THEN Strip(v.s) ELSE <<>>
VoiceOf(event) == OrDefault(Get(parse_json_body(event).v, "voice"), DEFAULT_VOICE)
LanguageOf(event) == OrDefault(Get(parse_json_body(event).v, "language"), DEFAULT_LANGUAGE)

\* faulty variant: the length test is off by one
TextErrorOffByOne(text) ==
    IF text = <<>> THEN Err("text", "Das Feld 'text' darf nicht leer sein.")
    ELSE IF Len(text) > MAX_TEXT_LENGTH + 1 THEN Err("text", "Text ist zu lang")
    ELSE Ok(JStr(text))

\* the two validations of the speech lambda_handler
TextError(text) ==
    IF text = <<>> THEN Err("text", "Das Feld 'text' darf nicht leer sein.")
    ELSE IF Len(text) > MAX_TEXT_LENGTH THEN Err("text", "Text ist zu lang")
    ELSE Ok(JStr(text))

\* the parameters of a synthesize_speech call; Engine "" means no Engine key
SynthesizeParams(text, language, voice, engine) ==
    [op |-> "synthesize_speech", Text |-> text, OutputFormat |-> "mp3", VoiceId |-> voice,
     LanguageCode |-> language, Engine |-> engine]
DescribeParams(voice) ==
    [op |-> "describe_voices", Text |-> <<>>, OutputFormat |-> "", VoiceId |-> voice,
     LanguageCode |-> <<>>, Engine |-> ""]

\* what a provider call came to
Result(kind, code, message) == [kind |-> kind, code |-> code, message |-> message]
Audio == Result("audio", <<>>, <<>>)
NoAudioStream == Result("no_stream", <<>>, <<>>)
BotoCoreFailure == Result("BotoCoreError", <<>>, <<>>)
EngineNotSupported ==
    Result("ClientError",
           <<" ","E","n","g","i","n","e","N","o","t","S","u","p","p","o","r","t","e","d","E","x","c","e","p","t","i","o","n">>,
           <<"n","o">>)
NeuralRequired ==
    Result("ClientError",
           <<"V","a","l","i","d","a","t","i","o","n","E","x","c","e","p","t","i","o","n">>,
           <<"U","s","e"," ","t","h","e"," ","N","e","u","r","a","l"," ","e","n","g","i","n","e">>)
Throttled ==
    Result("ClientError",
           <<"T","h","r","o","t","t","l","i","n","g","E","x","c","e","p","t","i","o","n">>,
           <<"R","a","t","e"," ","e","x","c","e","e","d","e","d">>)
ClientErrors == {EngineNotSupported, NeuralRequired, Throttled}
SynthesizeResults == {Audio, NoAudioStream, BotoCoreFailure} \cup ClientErrors
\* the retry is not looked at beyond the kind of its outcome
RetryResults == {Audio, NoAudioStream, BotoCoreFailure, Throttled}

\* binary_response(200, audio_bytes, mime_type="audio/mpeg")
binary_response(status_code, body, mime_type) ==
    BinaryEnvelope(status_code, body, NoHeaders, mime_type)

SynthesisFailed == ErrorResponse(502, <<"", "Fehler bei der Sprachsynthese">>)

\* lru_cache lookup: the entry of the voice, if any
CacheHit(c, voice) == \E i \in 1..Len(c) : c[i].voice = voice
CacheEntry(c, voice) == c[CHOOSE i \in 1..Len(c) : c[i].voice = voice]

\* lru_cache on a hit: the entry becomes the most recently used
Touch(c, voice) ==
    SelectSeq(c, LAMBDA e : e.voice # voice) \o <<CacheEntry(c, voice)>>

\* faulty variant: only a non-empty engine set is kept
RememberUnlessEmpty(c, voice, engines) ==
    IF engines = {} THEN c
    ELSE c \o <<[voice |-> voice, engines |-> engines]>>

\* lru_cache on a miss: the result is kept, the least recently used entry evicted
Remember(c, voice, engines) ==
    LET grown == c \o <<[voice |-> voice, engines |-> engines]>>
    IN  IF Len(grown) > CACHE_MAXSIZE THEN Tail(grown) ELSE grown

-----------------------------------------------------------------------------
(* Speech requests of the model *)

S_Hallo == <<" ","H","a","l","l","o"," ">>
TextOfLength(n) == [i \in 1..n |-> "a"]

SpeechPayload(text, voice, language) == [text |-> text, voice |-> voice, language |-> language]

S_Joanna == <<"J","o","a","n","n","a">>
S_en_US == <<"e","n","-","U","S">>
VoiceInputs ==
    { JNull, JStr(<<" ">>), JStr(<<"D","a","n","i","e","l">>),
      JStr(<<" ","H","a","n","n","a","h"," ">>), JStr(S_Joanna) }
RejectedTexts ==
    { JNull, JStr(<<>>), JStr(<<" ", " ">>), JStr(TextOfLength(MAX_TEXT_LENGTH + 1)) }
AcceptedTexts ==
    { JStr(S_Hallo), JStr(<<" ">> \o TextOfLength(MAX_TEXT_LENGTH) \o <<" ">>) }

SpeechEvent(body) == [body |-> body]
SpeechRequests ==
    { SpeechEvent(ObjectBody(SpeechPayload(JStr(S_Hallo), v, JNull))) : v \in VoiceInputs }
    \cup { SpeechEvent(ObjectBody(SpeechPayload(t, JStr(S_Joanna), JStr(S_en_US)))) :
             t \in RejectedTexts \cup AcceptedTexts }
    \cup { SpeechEvent(ObjectBody(SpeechPayload(JInt(5), JStr(S_Joanna), JNull))),
           SpeechEvent(ObjectBody(SpeechPayload(JInt(0), JStr(S_Joanna), JNull))),
           SpeechEvent(ObjectBody(SpeechPayload(JStr(S_Hallo), JInt(5), JNull))),
           SpeechEvent(ObjectBody(SpeechPayload(JStr(<<>>), JInt(5), JNull))) }
    \cup { SpeechEvent(b) : b \in {MalformedBody, NonObjectBody, UndecodableBody, EmptyBody} }

NoSpeechEvent == SpeechEvent(EmptyBody)
NoDescribe == [k \in {} |-> [n |-> 0, answer |-> DescribeAnswer("error", {})]]

-----------------------------------------------------------------------------
(* polly_handler.py: the handler, one step per provider call *)

\* the speech handler at rest
SpeechIdle ==
    /\ cache = <<>>
    /\ spc = "idle"
    /\ sreq = NoSpeechEvent
    /\ sresp = NoResponse
    /\ sengine = ""
    /\ scalls = <<>>
    /\ described = NoDescribe
    /\ snreq = 0

SpeechReturn(r) == sresp' = r /\ spc' = "done"

\* lambda_handler up to _synthesize_speech: parse_json_body and the text checks
ReceiveSpeech(event) ==
    /\ spc \in {"idle", "done"}
    /\ snreq < MaxSpeechRequests
    /\ snreq' = snreq + 1
    /\ sreq' = event
    /\ scalls' = <<>>
    /\ sengine' = ""
    /\ LET parsed == parse_json_body(event)
           checked == TextError(TextOf(event))
       IN  IF ~parsed.ok THEN SpeechReturn(with_error_handling(parsed.exc))
           ELSE IF StripRaises(Get(parsed.v, "text"))
           THEN SpeechReturn(with_error_handling(OtherException))
           ELSE IF ~checked.ok THEN SpeechReturn(ErrorResponse(400, checked.err))
           ELSE IF StripRaises(Get(parsed.v, "language")) \/ StripRaises(Get(parsed.v, "voice"))
           THEN SpeechReturn(with_error_handling(OtherException))
           ELSE spc' = "select" /\ sresp' = NoResponse
    /\ UNCHANGED <<cache, described>>
    /\ UNCHANGED <<catVars, progVars, envVars>>

\* _select_engine on a cache hit: no provider call
SelectCached ==
    /\ spc = "select"
    /\ CacheHit(cache, VoiceOf(sreq))
    /\ sengine' = _select_engine(CacheEntry(cache, VoiceOf(sreq)).engines)
    /\ cache' = Touch(cache, VoiceOf(sreq))
    /\ spc' = "synthesize"
    /\ UNCHANGED <<sreq, sresp, scalls, described, snreq>>
    /\ UNCHANGED <<catVars, progVars, envVars>>

\* _select_engine on a cache miss: describe_voices is called and its outcome cached
Describe(answer) ==
    /\ spc = "select"
    /\ ~CacheHit(cache, VoiceOf(sreq))
    /\ LET voice == VoiceOf(sreq)
           engines == SupportedEngines(answer)
           before == IF voice \in DOMAIN described THEN described[voice].n ELSE 0
       IN  /\ scalls' = Append(scalls, [params |-> DescribeParams(voice),
                                         result |-> Result(answer.kind, <<>>, <<>>)])
           /\ described' = With(described, voice, [n |-> before + 1, answer |-> answer])
           /\ cache' = Remember(cache, voice, engines)
           /\ sengine' = _select_engine(engines)
    /\ spc' = "synthesize"
    /\ UNCHANGED <<sreq, sresp, snreq>>
    /\ UNCHANGED <<catVars, progVars, envVars>>

\* _synthesize_speech: the first synthesize_speech call and what follows from it
Synthesize(result) ==
    /\ spc = "synthesize"
    /\ LET params == SynthesizeParams(TextOf(sreq), LanguageOf(sreq), VoiceOf(sreq), sengine)
       IN  scalls' = Append(scalls, [params |-> params, result |-> result])
    /\ CASE result.kind = "audio" ->
                SpeechReturn(binary_response(200, "audio", "audio/mpeg"))
         [] result.kind = "no_stream" ->
                SpeechReturn(ErrorResponse(502, <<"", "Polly lieferte keinen Audiostream">>))
         [] result.kind = "ClientError" ->
                IF sengine = "" /\ _should_retry_with_neural(result, VoiceOf(sreq))
                THEN spc' = "retry" /\ UNCHANGED sresp
                ELSE SpeechReturn(SynthesisFailed)
         [] OTHER -> SpeechReturn(SynthesisFailed)
    /\ UNCHANGED <<cache, sreq, sengine, described, snreq>>
    /\ UNCHANGED <<catVars, progVars, envVars>>

\* _synthesize_speech: the retry with Engine="neural"
Retry(result) ==
    /\ spc = "retry"
    /\ LET params == SynthesizeParams(TextOf(sreq), LanguageOf(sreq), VoiceOf(sreq), "neural")
       IN  scalls' = Append(scalls, [params |-> params, result |-> result])
    /\ CASE result.kind = "audio" ->
                SpeechReturn(binary_response(200, "audio", "audio/mpeg"))
         [] result.kind = "no_stream" ->
                SpeechReturn(ErrorResponse(502, <<"", "Polly lieferte keinen Audiostream">>))
         [] OTHER -> SpeechReturn(SynthesisFailed)
    /\ UNCHANGED <<cache, sreq, sengine, described, snreq>>
    /\ UNCHANGED <<catVars, progVars, envVars>>

NextSpeech ==
    \/ \E event \in SpeechRequests : ReceiveSpeech(event)
    \/ SelectCached
    \/ \E answer \in DescribeAnswers : Describe(answer)
    \/ \E result \in SynthesizeResults : Synthesize(result)
    \/ \E result \in RetryResults : Retry(result)

-----------------------------------------------------------------------------
(* lambda_utils.py: the response builders in their process *)

\* no CORS_* variable is set
Unconfigured == [k \in {} |-> <<>>]

EnvConfigs ==
    { Unconfigured,
      "CORS_ALLOW_METHODS" :> <<"GET">>,
      "CORS_ALLOW_METHODS" :> <<>>,
      ("CORS_ALLOW_ORIGIN" :> <<"https://app.example">>)
          @@ ("CORS_ALLOW_HEADERS" :> <<"Content-Type">>) }

\* headers a caller of the builders may pass: none, an empty dict, further headers,
\* None values, and values for the headers the builders set themselves
CallerHeaders ==
    { NoHeaders,
      "X-Request-Id" :> JStr(<<"1">>),
      ("Content-Type" :> JNull) @@ ("Access-Control-Allow-Origin" :> JNull)
          @@ ("Access-Control-Allow-Methods" :> JNull)
          @@ ("Access-Control-Allow-Headers" :> JNull),
      ("Content-Type" :> JStr(<<"text/html">>)) @@ ("Cache-Control" :> JNull),
      "Access-Control-Allow-Origin" :> JStr(<<>>) }

\* the process of a handler that has not been invoked
EnvIdle == env = Unconfigured /\ envelope = NoResponse /\ parsed_at = NoStamp

\* one of json_response, text_response and binary_response is called with headers
BuildEnvelope(kind, status_code, headers) ==
    /\ nreq = 0 /\ pnreq = 0 /\ snreq = 0
    /\ envelope' =
          CASE kind = "json" -> JsonEnvelope(status_code, [status |-> "ok"], headers)
            [] kind = "text" -> TextEnvelope(status_code, <<"o", "k">>, headers)
            [] OTHER -> BinaryEnvelope(status_code, "audio", headers,
                                       "application/octet-stream")
    /\ UNCHANGED <<catVars, progVars, speechVars, env, parsed_at>>

\* the process runs the catalog, the progress or the speech handler
CatalogAlone == pnreq = 0 /\ snreq = 0 /\ envelope = NoResponse
ProgressAlone == nreq = 0 /\ snreq = 0 /\ envelope = NoResponse
SpeechAlone == nreq = 0 /\ pnreq = 0 /\ envelope = NoResponse

NextEnvelope ==
    \/ \E kind \in {"json", "text", "binary"}, headers \in CallerHeaders :
          BuildEnvelope(kind, 200, headers)
    \/ CatalogAlone /\ nreq < EnvelopeRequests /\ \E event \in Requests : Receive(1, event)
    \/ CatalogAlone /\ \E outcome \in StoreOutcomes : GetItem(1, outcome)
    \/ CatalogAlone /\ \E outcome \in StoreOutcomes : Scan(1, outcome)
    \/ CatalogAlone /\ \E outcome \in StoreOutcomes : CreatePut(1, outcome)
    \/ CatalogAlone /\ \E outcome \in StoreOutcomes : UpdatePut(1, outcome)
    \/ CatalogAlone /\ \E outcome \in StoreOutcomes : UpdateDelete(1, outcome)
    \/ CatalogAlone /\ \E outcome \in StoreOutcomes : DeleteItem(1, outcome)
    \/ ProgressAlone /\ pnreq < EnvelopeRequests
                     /\ ProgressOptions(ProgressEvent("OPTIONS", EmptyDict, EmptyBody))
    \/ ProgressAlone /\ pnreq < EnvelopeRequests
                     /\ \E event \in ProgressOthers : ProgressUnsupported(event)
    \/ ProgressAlone /\ pnreq < EnvelopeRequests
                     /\ \E event \in ProgressPosts, outcome \in StoreOutcomes :
                           StoreProgressEntry(event, outcome, 1)
    \/ ProgressAlone /\ \E event \in ProgressGets : ListProgressEntries(event, EnvelopeRequests)
    \/ ProgressAlone /\ \E n \in PageChoices, more \in BOOLEAN, outcome \in StoreOutcomes :
                            ScanPage(n, more, outcome)
    \/ SpeechAlone /\ snreq < EnvelopeRequests
                   /\ \E event \in SpeechRequests : ReceiveSpeech(event)
    \/ SpeechAlone /\ \E answer \in DescribeAnswers : Describe(answer)
    \/ SpeechAlone /\ \E result \in SynthesizeResults : Synthesize(result)
    \/ SpeechAlone /\ \E result \in RetryResults : Retry(result)

-----------------------------------------------------------------------------
(* Specifications *)

\* the exercise catalog: two concurrent invocations against one table
Init == EnvIdle /\ InitCatalog /\ ProgressIdle /\ SpeechIdle
Spec == Init /\ [][NextCatalog]_vars

\* the progress log: one invocation after another, the clock running
InitProgress ==
    EnvIdle /\ CatalogIdle /\ SpeechIdle /\ InitProgressWith({TableOfSize(0), TableOfSize(SmallTableSize)})
SpecProgress == InitProgress /\ [][NextProgress]_vars

\* one progress listing against tables smaller and larger than the limits
InitListing ==
    /\ EnvIdle /\ CatalogIdle /\ SpeechIdle
    /\ InitProgressWith({TableOfSize(SmallTableSize), TableOfSize(MediumTableSize),
                         TableOfSize(LargeTableSize)})
SpecListing == InitListing /\ [][NextListing]_vars
\* the same, every scan call the loop issues being answered in the end: weak fairness
\* of the ScanPage steps, which are the steps taken while ppc = "scan" and are
\* enabled exactly then (the call can always raise)
ScanAnswered == []<>(ppc # "scan") \/ []<><<ppc = "scan">>_vars
SpecListingFair == SpecListing /\ ScanAnswered

\* speech synthesis: one invocation after another in one process
InitSpeech == EnvIdle /\ CatalogIdle /\ ProgressIdle /\ SpeechIdle
SpecSpeech == InitSpeech /\ [][NextSpeech]_vars

\* any one of the three handlers in a process whose environment may set the CORS_*
\* variables, and the response builders called with headers of the caller
InitEnvelope ==
    /\ env \in EnvConfigs
    /\ envelope = NoResponse
    /\ parsed_at = NoStamp
    /\ InitCatalog /\ table = TableOf({S_test, In_Test_Uebung, S_b})
    /\ InitProgressWith({TableOfSize(SmallTableSize)})
    /\ SpeechIdle
SpecEnvelope == InitEnvelope /\ [][NextEnvelope]_vars

\* _parse_iso_timestamp on its own, applied to a value and then to its own results
InitTimestamp ==
    /\ env = Unconfigured /\ envelope = NoResponse
    /\ CatalogIdle /\ ProgressIdle /\ SpeechIdle
    /\ parsed_at \in {[value |-> v, runs |-> <<>>] : v \in TimestampInputs}
SpecTimestamp == InitTimestamp /\ [][NextTimestamp]_vars

-----------------------------------------------------------------------------
(* Properties of the exercise catalog *)

Done(w) == pc[w] = "done"
Payload(w) == parse_json_body(req[w]).v
\* invocation w is a POST whose payload _build_item accepts
ValidCreate(w) ==
    /\ req[w].method = "POST"
    /\ parse_json_body(req[w]).ok
    /\ _build_item(Payload(w)).ok
CreateKey(w) == _build_item(Payload(w)).v["exercise_id"].s

\* C1: when the only two requests are valid POSTs for the same id, which the table
\* did not hold before, and the store answers both, then however their store calls
\* interleave one returns 201, the other 409, and the table holds the record of the
\* one that returned 201.
C1_ExactlyOneCreateWins ==
    \A w1, w2 \in Workers :
        ( /\ w1 # w2 /\ nreq = 2
          /\ Done(w1) /\ Done(w2)
          /\ ValidCreate(w1) /\ ValidCreate(w2)
          /\ CreateKey(w1) = CreateKey(w2)
          /\ CreateKey(w1) \notin table0
          /\ ~fault[w1] /\ ~fault[w2] )
        => /\ {resp[w1].status, resp[w2].status} = {201, 409}
           /\ \A w \in {w1, w2} :
                 resp[w].status = 201
                 => /\ CreateKey(w) \in DOMAIN table
                    /\ table[CreateKey(w)] = Stored(_build_item(Payload(w)).v)

\* two different payloads raced for the id "a": one won, one got 409
C1_Witness ==
    /\ nreq = 2 /\ Done(1) /\ Done(2)
    /\ req[1] = Event("POST", <<>>, ObjectBody(PayloadA))
    /\ req[2] = Event("POST", <<>>, ObjectBody(PayloadPadded))
    /\ resp[1].status = 409 /\ resp[2].status = 201
    /\ S_a \notin table0

\* C2 (as stated): the item returned by a successful POST carries the id of the
\* request unchanged, and a later GET of that id returns the identical item.
C2_ReturnedIdIsRequestId ==
    \A w \in Workers :
        (Done(w) /\ req[w].method = "POST" /\ resp[w].status = 201)
        => resp[w].body.item["id"] = Get(Payload(w), "id")

\* C2 (amended): the item returned by a successful POST carries the request id with
\* leading and trailing whitespace removed, and a GET of the returned id that the
\* store answers, with no write to that id in between, returns the identical item.
C2_CreateThenGet ==
    /\ \A w \in Workers :
          (Done(w) /\ req[w].method = "POST" /\ resp[w].status = 201)
          => /\ Get(Payload(w), "id").t = "str"
             /\ resp[w].body.item["id"] = JStr(Strip(Get(Payload(w), "id").s))
    /\ \A w \in Workers :
          ( /\ Done(w) /\ req[w].method = "GET" /\ req[w].exercise_id # <<>>
            /\ ~fault[w] /\ expect[w].has )
          => /\ resp[w] = json_response(200, [item |-> expect[w].item])
             /\ expect[w].item["id"] = JStr(req[w].exercise_id)

\* a POST of the padded payload (numbers, trimmed strings) was read back by GET
C2_Witness ==
    \E w \in Workers :
        /\ Done(w) /\ req[w].method = "GET" /\ req[w].exercise_id = S_a
        /\ expect[w].has /\ resp[w].status = 200
        /\ Get(resp[w].body.item, "prep_time") = JInt(5)
        /\ Get(resp[w].body.item, "name") = JStr(<<"z">>)

\* C3: for the reserved test ids ("test", " Test Übung", "TESTÜBUNG"): a POST with
\* such an id is rejected with 400 before any store call, a GET that the store
\* answers returns 404, a DELETE returns 404 without a store call, and a list
\* response never holds an item with such an id, though the table may.
C3_ReservedTestIds ==
    \A w \in Workers :
        Done(w) =>
            /\ ( /\ req[w].method = "POST" /\ parse_json_body(req[w]).ok
                 /\ Get(Payload(w), "id").s \in ReservedInputs )
               => (resp[w].status = 400 /\ calls[w] = <<>>)
            /\ ( /\ req[w].method = "GET" /\ req[w].exercise_id \in ReservedInputs
                 /\ ~fault[w] )
               => resp[w].status = 404
            /\ (req[w].method = "DELETE" /\ req[w].exercise_id \in ReservedInputs)
               => (resp[w].status = 404 /\ calls[w] = <<>>)
            /\ (req[w].method = "GET" /\ req[w].exercise_id = <<>> /\ resp[w].status = 200)
               => \A i \in 1..Len(resp[w].body.items) :
                     resp[w].body.items[i]["id"].s \notin ReservedInputs

\* the table holds reserved ids; a GET of one answered 404 and a list left them out
C3_Witness ==
    /\ {S_test, In_Test_Uebung} \subseteq DOMAIN table
    /\ Done(1) /\ req[1] = Event("GET", S_test, EmptyBody)
    /\ ~fault[1] /\ resp[1].status = 404
    /\ Done(2) /\ req[2] = Event("GET", <<>>, EmptyBody)
    /\ resp[2].status = 200 /\ resp[2].body.count = JInt(1)

-----------------------------------------------------------------------------
(* Properties of the progress log *)

ProgressDone(method) == ppc = "done" /\ preq.method = method
ProgressPayload == parse_json_body(preq).v

C5_CompletedAtIsFinishedAt ==
    ( /\ ProgressDone("POST") /\ presp.status = 201
      /\ Get(ProgressPayload, "finishedAt").s \in {T_1245_plus2, T_1045_Z, T_1045_minus1} )
    => /\ Len(pcalls) = 1
       /\ pcalls[1].op = "put_item"
       /\ "finished_at" \in DOMAIN pcalls[1].item
       /\ pcalls[1].item["completed_at"] = pcalls[1].item["finished_at"]

\* C6: a DELETE with clientId and completedAt issues exactly one conditional
\* delete on that key and answers 200, or 404 when the condition fails.
C6_DeleteByKey ==
    ( /\ ProgressDone("DELETE")
      /\ {"clientId", "completedAt"} \subseteq DOMAIN preq.query )
    => /\ presp.status \in {200, 404}
       /\ Len(pcalls) = 1
       /\ pcalls[1].op = "delete_item"

\* the limit a listing request asks for, capped
CappedLimit(event) ==
    LET raw == Get(event.query, "limit")
    IN  IF raw.t = "null" \/ raw.s = <<>> THEN DEFAULT_LIST_LIMIT
        ELSE IF ParseInt(raw.s).n < MAX_LIST_LIMIT THEN ParseInt(raw.s).n
        ELSE MAX_LIST_LIMIT

\* C7: whatever the table holds and however the store cuts the pages, a listing
\* answered 200 holds at most the requested limit capped at 500 (250 when no limit
\* is given), ordered by completed_at descending.
C7_ListingBoundedAndSorted ==
    (ProgressDone("GET") /\ presp.status = 200) =>
        LET items == presp.body.items
        IN  /\ Len(items) <= CappedLimit(preq)
            /\ \A i \in 1..(Len(items) - 1) :
                  CompletedAtRank(items[i]) >= CompletedAtRank(items[i + 1])

\* limit=600 against a table of more than 500 entries: exactly 500 came back
C7_Witness ==
    /\ ProgressDone("GET") /\ presp.status = 200
    /\ Get(preq.query, "limit") = JStr(<<"6","0","0">>)
    /\ Len(ptable) > MAX_LIST_LIMIT
    /\ Len(presp.body.items) = MAX_LIST_LIMIT
    /\ CompletedAtRank(presp.body.items[1])
         > CompletedAtRank(presp.body.items[MAX_LIST_LIMIT])

-----------------------------------------------------------------------------
(* Properties of the speech synthesis *)

\* the synthesize_speech calls of the request, in order
SynthesizeCalls == SelectSeq(scalls, LAMBDA c : c.params.op = "synthesize_speech")
DescribeCalls == SelectSeq(scalls, LAMBDA c : c.params.op = "describe_voices")

\* the Engine parameter the provider's answer about a voice calls for ("" = none)
EngineFor(answer) ==
    IF answer.kind # "voice" \/ answer.engines = {} \/ "standard" \in answer.engines THEN ""
    ELSE IF "neural" \in answer.engines THEN "neural"
    ELSE ""

\* C8: the first synthesize_speech call of a request carries no Engine when the
\* describe_voices answer for its voice (fresh or cached) failed, was empty or names
\* "standard"; Engine="neural" when it names "neural" without "standard"; no Engine
\* otherwise.
C8_EngineSelection ==
    Len(SynthesizeCalls) >= 1 =>
        LET first == SynthesizeCalls[1]
        IN  /\ first.params.VoiceId \in DOMAIN described
            /\ first.params.Engine = EngineFor(described[first.params.VoiceId].answer)

\* a second request for a neural-only voice, answered from the cache, asks for neural
C8_Witness ==
    /\ spc = "done"
    /\ snreq = 2
    /\ Len(DescribeCalls) = 0
    /\ Len(SynthesizeCalls) = 1
    /\ SynthesizeCalls[1].params.Engine = "neural"
    /\ described[SynthesizeCalls[1].params.VoiceId].answer.engines = {"neural"}
    /\ sresp.status = 200

\* the rejections and the voices that the engine-mismatch heuristics name
EngineMismatchRejections == {EngineNotSupported, NeuralRequired}
KnownNeuralOnly == {<<"V","i","c","k","i">>, <<"D","a","n","i","e","l">>, <<"H","a","n","n","a","h">>}
Failed(result) == result.kind \in {"ClientError", "BotoCoreError"}

\* C9: a request never makes more than two synthesize_speech calls. When the first
\* call carried no Engine and was rejected with a client error that matches the
\* heuristics, exactly one more call is made, the same but with Engine="neural",
\* and its failure ends the request with 502; every other failure of the first
\* call ends the request with 502 after that single call.
C9_RetryOnceWithNeural ==
    /\ Len(SynthesizeCalls) <= 2
    /\ (spc = "done" /\ Len(SynthesizeCalls) >= 1) =>
          LET first == SynthesizeCalls[1]
              matching == /\ first.result.kind = "ClientError"
                          /\ first.params.Engine = ""
                          /\ \/ first.result \in EngineMismatchRejections
                             \/ first.params.VoiceId \in KnownNeuralOnly
          IN  IF matching
              THEN /\ Len(SynthesizeCalls) = 2
                   /\ SynthesizeCalls[2].params = [first.params EXCEPT !.Engine = "neural"]
                   /\ Failed(SynthesizeCalls[2].result) => sresp.status = 502
              ELSE Failed(first.result) =>
                       Len(SynthesizeCalls) = 1 /\ sresp.status = 502

\* a retry that failed as well
C9_Witness ==
    /\ spc = "done"
    /\ Len(SynthesizeCalls) = 2
    /\ SynthesizeCalls[1].params.Engine = ""
    /\ SynthesizeCalls[2].params.Engine = "neural"
    /\ Failed(SynthesizeCalls[2].result)
    /\ sresp.status = 502

\* the body of the request decodes and its text, if any, can be trimmed
TextReadable(event) ==
    /\ event.body.kind # "undecodable"
    /\ ~StripRaises(Get(parse_json_body(event).v, "text"))

\* C10: a request whose trimmed text is empty or longer than MAX_TEXT_LENGTH is
\* answered at once with 400, and the request makes no provider call at all.
C10_RejectedBeforeAnyCall ==
    (/\ snreq > 0 /\ TextReadable(sreq)
     /\ (TextOf(sreq) = <<>> \/ Len(TextOf(sreq)) > MAX_TEXT_LENGTH)) =>
        /\ spc = "done"
        /\ sresp.status = 400
        /\ scalls = <<>>

\* a text one character over the limit, rejected after an earlier request was served
C10_Witness ==
    /\ snreq = 2
    /\ Len(TextOf(sreq)) = MAX_TEXT_LENGTH + 1
    /\ spc = "done"
    /\ sresp.status = 400
    /\ scalls = <<>>
    /\ Len(cache) = 1

-----------------------------------------------------------------------------
(* Properties of the response envelope *)

RequiredHeaders ==
    {"Access-Control-Allow-Origin", "Access-Control-Allow-Headers",
     "Access-Control-Allow-Methods", "Content-Type"}
WriteAndReadVerbs == {"OPTIONS", "GET", "POST", "PUT", "DELETE"}

\* the header value names the verb
Lists(value, verb) == \E i \in 1..Len(value) : value[i] = verb

\* what the claim asks of the response r of a handler
EnvelopeComplete(r) ==
    /\ RequiredHeaders \subseteq DOMAIN r.headers
    /\ "CORS_ALLOW_METHODS" \notin DOMAIN env
       => \A verb \in WriteAndReadVerbs :
             Lists(r.headers["Access-Control-Allow-Methods"], verb)

\* C11: every response a handler has returned (success, 400, 404, 405, 409, 502 of a
\* dependency, 500 of an unexpected fault) carries the three CORS headers and
\* Content-Type, and names OPTIONS, GET, POST, PUT and DELETE in Allow-Methods when
\* CORS_ALLOW_METHODS is not set; a response built with headers of the caller, None
\* values among them, carries the four headers as well.
C11_EnvelopeHeaders ==
    /\ \A w \in Workers : pc[w] = "done" => EnvelopeComplete(resp[w])
    /\ ppc = "done" => EnvelopeComplete(presp)
    /\ spc = "done" => EnvelopeComplete(sresp)
    /\ envelope # NoResponse => RequiredHeaders \subseteq DOMAIN envelope.headers

\* the progress listing ended in an unexpected fault, no CORS_* variable set
C11_Witness ==
    /\ ppc = "done"
    /\ presp.status = 500
    /\ env = Unconfigured
    /\ EnvelopeComplete(presp)
    /\ presp.headers["Content-Type"] = <<"application/json">>

-----------------------------------------------------------------------------
(* Properties of the store failures *)

\* the messages the handlers answer a failed store call with
StoreFailureMessages ==
    { "Übungen konnten nicht geladen werden", "Übung konnte nicht geladen werden",
      "Übung konnte nicht gespeichert werden", "Übung konnte nicht aktualisiert werden",
      "Übung konnte nicht gelöscht werden",
      "Übungsfortschritt konnte nicht gespeichert werden" }

\* r is a 502 whose body is one of the generic messages and nothing else
GenericBadGateway(r) ==
    /\ r.status = 502
    /\ DOMAIN r.body = {"error"}
    /\ r.body.error[2] \in StoreFailureMessages

\* the failed call of an update was the cleanup delete_item of the previous id
CleanupDeleteFailed(w) ==
    /\ req[w].method = "PUT"
    /\ Len(calls[w]) = 2
    /\ calls[w][2].op = "delete_item"

\* C12: a request whose store call failed (the list, get, create, update or delete
\* call of the catalog, the put or a scan of the progress log) ends with 502 and a
\* generic message, and for the catalog and the progress POST the failed call is the
\* only store call of the request.
C12_StoreFailureIs502 ==
    /\ \A w \in Workers :
          (pc[w] = "done" /\ fault[w] /\ ~CleanupDeleteFailed(w))
          => GenericBadGateway(resp[w]) /\ Len(calls[w]) = 1
    /\ (ppc = "done" /\ pfault)
       => /\ GenericBadGateway(presp)
          /\ preq.method = "POST" => Len(pcalls) = 1

-----------------------------------------------------------------------------
(* Properties of validation *)

\* invocation w of the catalog handler is a create or an update answered with 400
CatalogRejected(w) ==
    /\ pc[w] = "done"
    /\ req[w].method \in {"POST", "PUT"}
    /\ resp[w].status = 400
ProgressRejected == ppc = "done" /\ preq.method = "POST" /\ presp.status = 400

\* C13: a catalog create or update and a progress POST that are answered with 400
\* have issued no put and no delete (no store call at all), and the step that
\* answers 400 leaves the table as it was.
C13_NoEffectBefore400 ==
    /\ [](/\ \A w \in Workers : CatalogRejected(w) => calls[w] = <<>>
          /\ ProgressRejected => pcalls = <<>>)
    /\ [][/\ (nreq' # nreq /\ \E w \in Workers : CatalogRejected(w)' /\ req'[w] # req[w])
             => table' = table
          /\ (pnreq' # pnreq /\ ProgressRejected') => ptable' = ptable]_vars

\* an update whose payload fails validation, against a table that holds records
C13_Witness ==
    /\ CatalogRejected(1)
    /\ req[1].method = "PUT"
    /\ req[1].body.kind = "object"
    /\ calls[1] = <<>>
    /\ DOMAIN table # {}
    /\ table = TableOf(table0)

-----------------------------------------------------------------------------
(* Properties of the catalog dispatch *)

Spellings ==
    [OPTIONS |-> {"OPTIONS", "options"}, GET |-> {"GET", "get"}, POST |-> {"POST", "post"},
     PUT |-> {"PUT", "put"}, DELETE |-> {"DELETE", "delete"}]
\* invocation w was sent with the verb, with or without a path id
Sent(w, verb) == pc[w] # "idle" /\ req[w].method \in Spellings[verb]
WithId(w) == req[w].exercise_id # <<>>
\* the routes of lambda_handler
Routed(w) ==
    \/ Sent(w, "OPTIONS") \/ Sent(w, "GET") \/ Sent(w, "POST")
    \/ (Sent(w, "PUT") \/ Sent(w, "DELETE")) /\ WithId(w)
\* the store calls invocation w has made are a prefix of seq
CallsWithin(w, seq) ==
    /\ Len(calls[w]) <= Len(seq)
    /\ \A i \in 1..Len(calls[w]) :
          calls[w][i].op = seq[i].op /\ (seq[i].op = "put_item" \/ calls[w][i] = seq[i])
Status(w) == resp[w].status

\* C14: OPTIONS is answered 200 without a store call; GET without id scans, GET with
\* id reads that key; POST only puts; PUT with id puts and then at most deletes;
\* DELETE with id only deletes that key; every other request (PUT or DELETE without
\* id, unknown or missing method) is answered 405 without a store call, and no routed
\* request is answered 405.
C14_Dispatch ==
    \A w \in Workers :
        /\ Sent(w, "OPTIONS") =>
              Done(w) /\ Status(w) = 200 /\ resp[w].body = [status |-> "ok"] /\ calls[w] = <<>>
        /\ (Sent(w, "GET") /\ ~WithId(w)) =>
              /\ CallsWithin(w, <<Call("scan", <<>>)>>)
              /\ Done(w) => Len(calls[w]) = 1 /\ Status(w) \in {200, 502}
        /\ (Sent(w, "GET") /\ WithId(w)) =>
              /\ CallsWithin(w, <<Call("get_item", req[w].exercise_id)>>)
              /\ Done(w) => Len(calls[w]) = 1 /\ Status(w) \in {200, 404, 502}
        /\ Sent(w, "POST") =>
              /\ CallsWithin(w, <<Call("put_item", <<>>)>>)
              /\ Done(w) => Status(w) \in {201, 400, 409, 500, 502}
        /\ (Sent(w, "PUT") /\ WithId(w)) =>
              /\ CallsWithin(w, <<Call("put_item", <<>>),
                                  Call("delete_item", PreviousId(req[w]).s)>>)
              /\ Done(w) => Status(w) \in {200, 400, 502}
        /\ (Sent(w, "DELETE") /\ WithId(w)) =>
              /\ CallsWithin(w, <<Call("delete_item", req[w].exercise_id)>>)
              /\ Done(w) => Status(w) \in {204, 404, 502}
        /\ (pc[w] # "idle" /\ ~Routed(w)) =>
              Done(w) /\ Status(w) = 405 /\ calls[w] = <<>>

\* a PUT without id, a DELETE without id, an unknown verb or a missing method has
\* been answered 405 next to a GET in lower case that read its key
C14_Witness ==
    /\ Done(1) /\ Status(1) = 405 /\ calls[1] = <<>>
    /\ req[1].method \in {"PUT", "DELETE", "PATCH", ""}
    /\ Done(2) /\ req[2].method = "get" /\ calls[2] = <<Call("get_item", S_a)>>
    /\ Status(2) \in {200, 404}

-----------------------------------------------------------------------------
(* Properties of the timestamp normalization *)

\* the value is a string that, trimmed, is a date-time followed by "Z" or an offset
HasZone(value) ==
    /\ value.t = "str"
    /\ Len(Strip(value.s)) = 2
    /\ Strip(value.s)[2] \in ZoneTokens
\* the k-th application accepted its argument and returned a string
Normalized(k) ==
    Len(parsed_at.runs) >= k /\ parsed_at.runs[k].ok /\ parsed_at.runs[k].v.t = "str"

\* C15: for an accepted timestamp t with "Z" or an explicit offset, normalize(t) ends
\* in "Z" and denotes the same instant as t, and normalize(normalize(t)) is accepted
\* and equals normalize(t); "2024-07-09T12:45:00+02:00" becomes "2024-07-09T10:45:00Z".
C15_NormalizeIdempotent ==
    /\ (HasZone(parsed_at.value) /\ Normalized(1)) =>
          LET out == parsed_at.runs[1].v.s
          IN  /\ Len(out) = 2 /\ out[2] = "Z"
              /\ InstantOf(out) = InstantOf(Strip(parsed_at.value.s))
              /\ Len(parsed_at.runs) >= 2 => parsed_at.runs[2] = parsed_at.runs[1]
    /\ (parsed_at.value = JStr(T_1245_plus2) /\ Len(parsed_at.runs) >= 1) =>
          parsed_at.runs[1] = Ok(JStr(<<"2024-07-09T10:45:00", "Z">>))

\* a padded local time late in the evening has been normalized twice: the UTC time
\* falls on the next day
C15_Witness ==
    /\ parsed_at.value = JStr(<<" ", "2024-07-09T23:30:00", "-01:00", " ", " ">>)
    /\ Normalized(1) /\ Normalized(2)
    /\ parsed_at.runs[1].v.s = <<"2024-07-10T00:30:00", "Z">>
    /\ parsed_at.runs[2] = parsed_at.runs[1]

-----------------------------------------------------------------------------
(* Properties of the catalog update *)

\* invocation w is a PUT with a path id whose payload _build_item accepts
ValidUpdate(w) ==
    /\ req[w].method = "PUT" /\ WithId(w)
    /\ parse_json_body(req[w]).ok
    /\ Payload(w) # EmptyDict
    /\ _build_item(Payload(w)).ok
NewItem(w) == _build_item(Payload(w)).v
NewId(w) == NewItem(w)["id"].s
\* the payload's previousId, or the path id when the payload names none
OldId(w) ==
    LET p == Get(Payload(w), "previousId")
    IN  IF p.t = "str" /\ p.s # <<>> THEN p.s ELSE req[w].exercise_id
Renames(w) == OldId(w) # NewId(w)
OnlyInvocation(w) == \A v \in Workers \ {w} : pc[v] = "idle"

\* C16: a PUT with a valid payload writes the record under the payload's id whether
\* or not one exists and, the write succeeding, is answered 200 with the record; when
\* the previous id (previousId, else the path id) differs from the new id, exactly one
\* delete of the previous id follows the write, and its failure leaves the table and
\* the 200 as they are; with no other invocation at work, after a successful delete
\* the table holds the new id and not the old one.
C16_UpdateOverwritesAndRenames ==
    /\ [](\A w \in Workers : (ValidUpdate(w) /\ Done(w)) =>
            /\ Status(w) \in {200, 502}
            /\ Status(w) = 502 => calls[w] = <<Call("put_item", NewId(w))>> /\ fault[w]
            /\ Status(w) = 200 =>
                  /\ resp[w] = json_response(200, [item |-> SanitizeItem(NewItem(w))])
                  /\ calls[w] = IF Renames(w)
                                THEN <<Call("put_item", NewId(w)), Call("delete_item", OldId(w))>>
                                ELSE <<Call("put_item", NewId(w))>>
                  /\ OnlyInvocation(w) =>
                        /\ NewId(w) \in DOMAIN table
                        /\ table[NewId(w)] = Stored(NewItem(w))
                        /\ (Renames(w) /\ ~fault[w]) => OldId(w) \notin DOMAIN table)
    /\ [][\A w \in Workers :
            /\ (pc[w] = "update_put" /\ pc'[w] # "update_put" /\ ~fault'[w]) =>
                  /\ table' = With(table, NewId(w), Stored(NewItem(w)))
                  /\ pc'[w] = IF Renames(w) THEN "update_delete" ELSE "done"
            /\ (pc[w] = "update_delete" /\ pc'[w] = "done") =>
                  /\ Status(w)' = 200
                  /\ table' = IF fault'[w] THEN table ELSE Without(table, OldId(w))]_vars

\* a record created as "a" has been renamed to "b", an id another record held
C16_Witness ==
    /\ nreq = 2 /\ OnlyInvocation(1)
    /\ ValidUpdate(1) /\ Done(1) /\ Status(1) = 200
    /\ req[1].exercise_id = S_a /\ NewId(1) = S_b /\ S_b \in table0
    /\ calls[1] = <<Call("put_item", S_b), Call("delete_item", S_a)>>
    /\ ~fault[1]
    /\ table[S_b] = Stored(NewItem(1))
    /\ S_a \notin DOMAIN table

-----------------------------------------------------------------------------
(* Properties of the reserved test ids in mutations *)

Mutations == {"put_item", "delete_item"}

\* C17: no invocation of the catalog handler ever issues a put_item or a delete_item
\* on a key that is a reserved test id.
C17_NoMutationOfReservedKey ==
    \A w \in Workers : \A i \in 1..Len(calls[w]) :
        calls[w][i].op \in Mutations => ~_is_test_exercise(calls[w][i].key)

-----------------------------------------------------------------------------
(* Properties of the catalog delete *)

\* invocation w is a DELETE, or a GET, of the non-reserved id k
DeleteOf(w, k) ==
    req[w].method = "DELETE" /\ req[w].exercise_id = k /\ ~_is_test_exercise(k)
GetOf(w, k) == req[w].method = "GET" /\ req[w].exercise_id = k
\* invocation w finishes with this step, its store call having succeeded
Finishes(w) == pc[w] \notin {"idle", "done"} /\ pc'[w] = "done" /\ ~fault'[w]
NonReservedIds == {k \in PathIds : ~_is_test_exercise(k)}

\* C18: a DELETE of a non-reserved id is answered 204 exactly when the key held a
\* record, which the step removes, and 404 when it held none and the table stays as
\* it was.  A key that holds no record answers GET and DELETE with 404, and it holds
\* none until a put_item on that key: so after a 204 a GET and a second DELETE of the
\* id are answered 404 unless a create or update of the id comes between.
C18_DeleteThenNotFound ==
    [][\A k \in NonReservedIds :
        /\ \A w \in Workers :
            /\ (DeleteOf(w, k) /\ Finishes(w)) =>
                  \/ Status(w)' = 204 /\ k \in DOMAIN table /\ table' = Without(table, k)
                  \/ Status(w)' = 404 /\ k \notin DOMAIN table /\ table' = table
            /\ ((DeleteOf(w, k) \/ GetOf(w, k)) /\ Finishes(w) /\ k \notin DOMAIN table) =>
                  Status(w)' = 404
        /\ (k \notin DOMAIN table /\ k \in DOMAIN table') =>
              \E w \in Workers : calls'[w] = Append(calls[w], Call("put_item", k))]_vars

\* the record "b" was deleted with 204, and the GET of "b" by the other invocation,
\* which would have found it before, was answered 404
C18_Witness ==
    /\ S_b \in table0 /\ S_b \notin DOMAIN table /\ nreq = 2
    /\ Done(1) /\ DeleteOf(1, S_b) /\ Status(1) = 204
    /\ Done(2) /\ GetOf(2, S_b) /\ Status(2) = 404 /\ ~fault[2]

\* the same with a second DELETE in place of the GET
C18_SecondDelete ==
    /\ S_b \in table0 /\ S_b \notin DOMAIN table /\ nreq = 2
    /\ Done(1) /\ DeleteOf(1, S_b) /\ Status(1) = 204
    /\ Done(2) /\ DeleteOf(2, S_b) /\ Status(2) = 404 /\ ~fault[2]

-----------------------------------------------------------------------------
(* Properties of the listing loop *)

\* min(limit - collected, 100)
MissingOrCap(limit, collected) ==
    IF limit - collected < MAX_PAGE_SIZE THEN limit - collected ELSE MAX_PAGE_SIZE
\* every entry of the table is among the items of the response
AllReturned ==
    /\ Len(presp.body.items) = Len(ptable)
    /\ \A i \in 1..Len(ptable) :
          \E j \in 1..Len(presp.body.items) : presp.body.items[j] = SanitizeEntry(ptable[i])

\* C19: every scan call of the listing loop asks for min(limit - collected, 100)
\* items, between 1 and 100, and starts at the continuation key of the page before
\* (the position behind the items collected so far; none for the first call); after
\* a page the loop ends exactly when limit items are collected or the page carried no
\* continuation key, and each further turn has collected more; the loop ends for
\* every table; and a table of at most limit entries is returned whole.
C19_ListingLoop ==
    /\ [][ppc = "scan" =>
            /\ plast'.limit = MissingOrCap(plimit, Len(pitems))
            /\ plast'.limit \in 1..MAX_PAGE_SIZE
            /\ plast'.start = Len(pitems)
            /\ ~pfault' =>
                  /\ (ppc' = "done") <=> (Len(pitems') >= plimit \/ pstart' = 0)
                  /\ (ppc' = "scan") => Len(pitems') > Len(pitems)]_vars
    /\ []((ProgressDone("GET") /\ presp.status = 200 /\ Len(ptable) <= plimit) => AllReturned)
    /\ (ppc = "scan") ~> (ppc = "done")

\* a table of 260 entries listed with limit=600: three pages of 100, 100 and 60 were
\* asked for, the last from position 200, and all 260 entries came back
C19_Witness ==
    /\ ProgressDone("GET") /\ presp.status = 200
    /\ Len(ptable) = MediumTableSize /\ plimit = MAX_LIST_LIMIT
    /\ plast.start = 2 * MAX_PAGE_SIZE
    /\ plast.limit = MAX_PAGE_SIZE
    /\ AllReturned

-----------------------------------------------------------------------------
(* Properties of the engine cache *)

\* the provider failed to describe the voice, or knew no such voice
NoEnginesLearnt(voice) ==
    voice \in DOMAIN described /\ described[voice].answer.kind \in {"error", "empty"}
\* the request reached synthesize_speech without calling describe_voices
ServedFromCache == Len(SynthesizeCalls) >= 1 /\ DescribeCalls = <<>>

\* C20: while at most 256 distinct voices have been used, describe_voices has been
\* called at most once for each voice over all requests of the process, whatever it
\* answered; a request whose voice was described before makes no describe_voices
\* call, and when that earlier call failed or came back empty its first
\* synthesize_speech call carries no Engine.
C20_DescribeOncePerVoice ==
    Cardinality(DOMAIN described) <= CACHE_MAXSIZE =>
        /\ \A voice \in DOMAIN described : described[voice].n = 1
        /\ Len(DescribeCalls) <= 1
        /\ ServedFromCache =>
              LET first == SynthesizeCalls[1]
              IN  /\ first.params.VoiceId \in DOMAIN described
                  /\ NoEnginesLearnt(first.params.VoiceId) => first.params.Engine = ""

\* describe_voices raised for the first request of a voice; the second request for
\* that voice went to synthesize_speech without Engine and without asking again
C20_Witness ==
    /\ snreq = 2 /\ spc = "done"
    /\ ServedFromCache
    /\ described[SynthesizeCalls[1].params.VoiceId].answer.kind = "error"
    /\ described[SynthesizeCalls[1].params.VoiceId].n = 1
    /\ SynthesizeCalls[1].params.Engine = ""

-----------------------------------------------------------------------------
(* Properties of the error wrapper *)

StatusCodes == {200, 201, 204, 400, 404, 405, 409, 500, 502}
GenericFaultBody == [error |-> <<"", "Interner Serverfehler">>]
BodyMessages ==
    [malformed |-> <<"", "Ungültiges JSON im Request-Body">>,
     nonobject |-> <<"", "Request-Body muss ein JSON-Objekt sein">>]

\* a response of the envelope: a known status, and an error body from 400 on
WellFormed(r) ==
    /\ r.status \in StatusCodes
    /\ r.status >= 400 => DOMAIN r.body = {"error"}
\* a finished invocation read the body of its event, which was of this kind
CatalogRead(w, kind) ==
    /\ Done(w) /\ req[w].body.kind = kind
    /\ req[w].method = "POST" \/ (req[w].method = "PUT" /\ WithId(w))
ProgressRead(kind) == ProgressDone("POST") /\ preq.body.kind = kind
SpeechRead(kind) == snreq > 0 /\ spc = "done" /\ sreq.body.kind = kind
\* a field of the speech request that is trimmed is truthy and no string, and no
\* HttpError came before the trimming
SpeechFieldFault ==
    /\ snreq > 0 /\ sreq.body.kind = "object"
    /\ LET field(name) == Get(sreq.body.obj, name)
           unfit(name) == field(name).t \in {"int", "dec"} /\ field(name).n # 0
       IN  \/ unfit("text")
           \/ /\ field("text").t = "str"
              /\ Strip(field("text").s) # <<>>
              /\ Len(Strip(field("text").s)) <= MAX_TEXT_LENGTH
              /\ unfit("language") \/ unfit("voice")

\* C21: every finished invocation of the three handlers has a response of the
\* envelope.  A body of malformed JSON or of JSON that is no object is answered 400
\* with the message of that HttpError; an undecodable base64 body and a non-string
\* field the speech handler trims are answered 500 with the generic message; and 500
\* is answered only for those and for a progress scan that raised, always with the
\* generic message.
C21_WrapperCatchesAll ==
    /\ \A w \in Workers : Done(w) => WellFormed(resp[w])
    /\ ppc = "done" => WellFormed(presp)
    /\ (snreq > 0 /\ spc = "done") => WellFormed(sresp)
    /\ \A kind \in DOMAIN BodyMessages :
          LET answer == ErrorResponse(400, BodyMessages[kind])
          IN  /\ \A w \in Workers : CatalogRead(w, kind) => resp[w] = answer
              /\ ProgressRead(kind) => presp = answer
              /\ SpeechRead(kind) => sresp = answer
    /\ \A w \in Workers :
          (Done(w) /\ Status(w) = 500) <=> CatalogRead(w, "undecodable")
    /\ (ppc = "done" /\ presp.status = 500)
          <=> (ProgressRead("undecodable") \/ (ProgressDone("GET") /\ pfault))
    /\ (snreq > 0 /\ spc = "done" /\ sresp.status = 500)
          <=> (SpeechRead("undecodable") \/ (spc = "done" /\ SpeechFieldFault))
    /\ SpeechFieldFault => spc = "done"
    /\ \A r \in {resp[w] : w \in Workers} \cup {presp, sresp} :
          r.status = 500 => r.body = GenericFaultBody

\* the speech handler has answered a request whose text is a number with 500
C21_Witness ==
    /\ snreq > 0 /\ spc = "done"
    /\ Get(sreq.body.obj, "text") = JInt(5)
    /\ sresp = InternalError
    /\ scalls = <<>>

\* an undecodable body has been answered 500 by the catalog and the progress handler
C21_UndecodableCatalog == CatalogRead(1, "undecodable") /\ resp[1] = InternalError
C21_UndecodableProgress == ProgressRead("undecodable") /\ presp = InternalError

=============================================================================
